---- MODULE Spec2Model ----
(***************************************************************************)
(* Model of whload's `do_load` (src/whload/src/main.rs): the Schema Gate,  *)
(* the single ingestion transaction, the line parser, the path normalizer, *)
(* the cached get-or-create identity resolver and the relationship writer. *)
(*                                                                         *)
(* Text is modelled as sequences of one-character strings, so that         *)
(* splitting, JSON decoding, lower-casing and separator replacement are    *)
(* computed character by character as the code computes them.              *)
(* Option<T> is modelled as a sequence: None == << >>, Some(x) == <<x>>;   *)
(* SQL NULL is None.                                                       *)
(***************************************************************************)
EXTENDS Integers, Sequences, FiniteSets, TLC

\* ------------------------------------------------------------------ bounds
\* Maximum number of chunks (sample lines) an input file is made of.
MaxLines == 2
\* Maximum number of loader runs against the same store.
MaxRuns == 2
\* lines of a long input file, and the length of the name of its long record
MaxLongLines == 3
LongNameLen == 2200

\* --------------------------------------------------------------- constants
MAX_SUPPORTED_SCHEMA == 2
NOT_A_SECONDARY_PLATFORM == FALSE
\* Version installed by db/schema.sql (the baseline schema is the current one).
BASELINE_SCHEMA_VERSION == 2
\* ------------------------------------------------------------- characters
TAB == "\t"
NL == "\n"
CR == "\r"
BS == "\\"
DQ == "\""
SL == "/"

None == << >>
Some(x) == <<x>>
IsSome(o) == Len(o) = 1
Unwrap(o) == o[1]

UPPER == <<"A","B","C","D","E","F","G","H","I","J","K","L","M",
           "N","O","P","Q","R","S","T","U","V","W","X","Y","Z">>
LOWER == <<"a","b","c","d","e","f","g","h","i","j","k","l","m",
           "n","o","p","q","r","s","t","u","v","w","x","y","z">>
DIGITS == <<"0","1","2","3","4","5","6","7","8","9">>

\* char::to_lowercase on the modelled (ASCII) alphabet
ToLowerChar(c) ==
    IF \E i \in 1..26 : UPPER[i] = c
    THEN LOWER[CHOOSE i \in 1..26 : UPPER[i] = c]
    ELSE c

\* str::to_lowercase
to_lowercase(s) == [i \in 1..Len(s) |-> ToLowerChar(s[i])]

\* str::replace(from, to) for one-character patterns
replace(s, from, to) == [i \in 1..Len(s) |-> IF s[i] = from THEN to ELSE s[i]]

\* str::split(sep) for a one-character separator: always at least one piece
RECURSIVE split(_, _)
split(s, sep) ==
    IF \A i \in 1..Len(s) : s[i] # sep
    THEN <<s>>
    ELSE LET i == CHOOSE j \in 1..Len(s) :
                     /\ s[j] = sep
                     /\ \A k \in 1..(j-1) : s[k] # sep
         IN  <<SubSeq(s, 1, i-1)>> \o split(SubSeq(s, i+1, Len(s)), sep)

\* [&str]::join(sep)
RECURSIVE join(_, _)
join(pieces, sep) ==
    IF Len(pieces) = 0 THEN << >>
    ELSE IF Len(pieces) = 1 THEN pieces[1]
    ELSE pieces[1] \o <<sep>> \o join(Tail(pieces), sep)

\* the loop `while line.ends_with(&['\r', '\n']) { line.pop(); }`
RECURSIVE StripNewlines(_)
StripNewlines(line) ==
    IF Len(line) > 0 /\ line[Len(line)] \in {CR, NL}
    THEN StripNewlines(SubSeq(line, 1, Len(line) - 1))
    ELSE line

\* ------------------------------------------------------------ JSON decoding
\* serde_json::from_str::<Vec<String>>: a JSON array of strings surrounded by
\* optional whitespace, nothing after it.  Escapes \b, \f and \uXXXX decode
\* to characters outside the modelled alphabet and do not occur in the inputs.
JsonWs == {" ", TAB, NL, CR}

RECURSIVE SkipWs(_, _)
SkipWs(s, i) ==
    IF i <= Len(s) /\ s[i] \in JsonWs THEN SkipWs(s, i + 1) ELSE i

JsonFail == [ok |-> FALSE, val |-> << >>, next |-> 0]

\* the character an escape sequence \e stands for, None if it is no escape
Unescape(e) ==
    IF e \in {DQ, BS, SL} THEN Some(e)
    ELSE IF e = "t" THEN Some(TAB)
    ELSE IF e = "n" THEN Some(NL)
    ELSE IF e = "r" THEN Some(CR)
    ELSE None

\* body of a JSON string, s[i] being the first character after the opening quote
RECURSIVE ParseStrBody(_, _, _)
ParseStrBody(s, i, acc) ==
    IF i > Len(s) THEN JsonFail
    ELSE IF s[i] = DQ THEN [ok |-> TRUE, val |-> acc, next |-> i + 1]
    ELSE IF s[i] \in {TAB, NL, CR} THEN JsonFail
    ELSE IF s[i] = BS /\ (i + 1 > Len(s) \/ ~IsSome(Unescape(s[i+1]))) THEN JsonFail
    ELSE ParseStrBody(s, IF s[i] = BS THEN i + 2 ELSE i + 1,
                      Append(acc, IF s[i] = BS THEN Unwrap(Unescape(s[i+1])) ELSE s[i]))

\* elements of the array, i being the position where an element must start;
\* AfterElem continues after the element r, j being the position of the next
\* character that is not whitespace
RECURSIVE ParseElems(_, _, _)
AfterElem(s, acc, r, j) ==
    IF j > Len(s) THEN JsonFail
    ELSE IF s[j] = "]"
    THEN [ok |-> TRUE, val |-> Append(acc, r.val), next |-> j + 1]
    ELSE IF s[j] = ","
    THEN ParseElems(s, SkipWs(s, j + 1), Append(acc, r.val))
    ELSE JsonFail

ElemParsed(s, acc, r) ==
    IF ~r.ok THEN JsonFail ELSE AfterElem(s, acc, r, SkipWs(s, r.next))

ParseElems(s, i, acc) ==
    IF i > Len(s) \/ s[i] # DQ THEN JsonFail
    ELSE ElemParsed(s, acc, ParseStrBody(s, i + 1, << >>))

\* the array is complete: only whitespace may follow
ArrayParsed(s, r) ==
    IF ~r.ok THEN JsonFail
    ELSE IF SkipWs(s, r.next) <= Len(s) THEN JsonFail
    ELSE r

\* j is the position of the first character after '[' that is not whitespace
ArrayOpened(s, j) ==
    IF j > Len(s) THEN JsonFail
    ELSE IF s[j] = "]"
    THEN ArrayParsed(s, [ok |-> TRUE, val |-> << >>, next |-> j + 1])
    ELSE ArrayParsed(s, ParseElems(s, j, << >>))

\* i is the position of the first character that is not whitespace
ArrayAt(s, i) ==
    IF i > Len(s) \/ s[i] # "[" THEN JsonFail
    ELSE ArrayOpened(s, SkipWs(s, i + 1))

from_str(s) == ArrayAt(s, SkipWs(s, 1))

\* ----------------------------------------------------------- ordinal parsing
\* An integer is kept as its canonical decimal numeral (a sequence of digit
\* characters without leading zeros), so that 64-bit values are exact.
IsDigit(c) == \E i \in 1..10 : DIGITS[i] = c
DigitVal(c) == (CHOOSE i \in 1..10 : DIGITS[i] = c) - 1

\* u64::MAX and i64::MAX
U64_MAX == <<"1","8","4","4","6","7","4","4","0","7","3","7","0","9","5","5","1","6","1","5">>
I64_MAX == <<"9","2","2","3","3","7","2","0","3","6","8","5","4","7","7","5","8","0","7">>

RECURSIVE StripZeros(_)
StripZeros(d) ==
    IF Len(d) > 1 /\ d[1] = "0" THEN StripZeros(Tail(d)) ELSE d

\* a <= b for canonical numerals
RECURSIVE NumLeqSameLen(_, _)
NumLeqSameLen(a, b) ==
    IF Len(a) = 0 THEN TRUE
    ELSE IF DigitVal(a[1]) < DigitVal(b[1]) THEN TRUE
    ELSE IF DigitVal(a[1]) > DigitVal(b[1]) THEN FALSE
    ELSE NumLeqSameLen(Tail(a), Tail(b))

NumLeq(a, b) ==
    \/ Len(a) < Len(b)
    \/ Len(a) = Len(b) /\ NumLeqSameLen(a, b)

\* the digits d of a numeral after its optional sign
ParseDigits(d) ==
    IF Len(d) = 0 \/ \E i \in 1..Len(d) : ~IsDigit(d[i]) THEN None
    ELSE IF ~NumLeq(StripZeros(d), U64_MAX) THEN None
    ELSE Some(StripZeros(d))

\* <u64 as FromStr>::from_str: optional '+', then one or more decimal digits,
\* value at most u64::MAX
parse(s) == ParseDigits(IF Len(s) > 0 /\ s[1] = "+" THEN Tail(s) ELSE s)

\* rusqlite's ToSql for u64: the value must fit an i64
U64ToSqlOk(n) == NumLeq(n, I64_MAX)

\* ------------------------------------------------------------------ store
\* The data tables of the store.  Entity tables are sets of rows; symbol_dll_os
\* is the sequence of its rows in insertion order (it has no surrogate key
\* and, NULLs being distinct under a UNIQUE constraint, may hold equal rows).
EmptyTables ==
    [operating_systems |-> {}, dlls |-> {}, symbols |-> {}, symbol_dll_os |-> << >>]

SetMax(S) == CHOOSE m \in S : \A x \in S : x <= m

\* the rowid SQLite generates for an INTEGER PRIMARY KEY column
NextRowId(ids) == IF ids = {} THEN 1 ELSE SetMax(ids) + 1

\* UNIQUE constraints of the schema (db/schema.sql).  SQLite considers NULLs
\* distinct from each other in a UNIQUE constraint.
OsConflict(t, short_name) ==
    \E r \in t.operating_systems : r.short_name = short_name
DllConflict(t, path) ==
    \E r \in t.dlls : r.path = path
SymbolConflict(t, raw_name, dll_name, ordinal) ==
    \/ IsSome(raw_name) /\ \E r \in t.symbols : r.raw_name = raw_name
    \/ /\ IsSome(dll_name) /\ IsSome(ordinal)
       /\ \E r \in t.symbols : r.dll_name = dll_name /\ r.ordinal = ordinal
RelationshipConflict(t, row) ==
    /\ IsSome(row.ordinal)
    /\ \E i \in 1..Len(t.symbol_dll_os) : t.symbol_dll_os[i] = row

\* run_get_id_query: the ID of the row the statement selects, if any
run_get_id_query(ids) ==
    IF ids = {} THEN None ELSE Some(CHOOSE i \in ids : TRUE)

\* "SELECT os_id FROM operating_systems WHERE short_name = ?1"
query_os(t, short_name) ==
    run_get_id_query({r.os_id : r \in {x \in t.operating_systems : x.short_name = short_name}})

\* "INSERT INTO operating_systems (short_name, long_name) VALUES (?1, NULL) RETURNING os_id"
insert_os(t, short_name) ==
    LET id == NextRowId({r.os_id : r \in t.operating_systems}) IN
    IF OsConflict(t, short_name) THEN [ok |-> FALSE, id |-> 0, t |-> t]
    ELSE [ok |-> TRUE, id |-> id,
          t |-> [t EXCEPT !.operating_systems = @ \cup
                    {[os_id |-> id, short_name |-> short_name, long_name |-> None]}]]

\* "SELECT dll_id FROM dlls WHERE path = ?1"
query_dll(t, path) ==
    run_get_id_query({r.dll_id : r \in {x \in t.dlls : x.path = path}})

\* "INSERT INTO dlls (path, secondary_platform) VALUES (?1, ?2) RETURNING dll_id"
insert_dll(t, path, secondary_platform) ==
    LET id == NextRowId({r.dll_id : r \in t.dlls}) IN
    IF DllConflict(t, path) THEN [ok |-> FALSE, id |-> 0, t |-> t]
    ELSE [ok |-> TRUE, id |-> id,
          t |-> [t EXCEPT !.dlls = @ \cup
                    {[dll_id |-> id, path |-> path,
                      secondary_platform |-> secondary_platform]}]]

\* "SELECT sym_id FROM symbols WHERE raw_name = ?1"
query_named_symbol(t, symbol_name) ==
    run_get_id_query({r.sym_id : r \in {x \in t.symbols : x.raw_name = Some(symbol_name)}})

\* "INSERT INTO symbols (raw_name, dll_name, ordinal, friendly_name)
\*  VALUES (?1, NULL, NULL, ?2) RETURNING sym_id"
insert_named_symbol(t, symbol_name, friendly_name) ==
    LET id == NextRowId({r.sym_id : r \in t.symbols}) IN
    IF SymbolConflict(t, Some(symbol_name), None, None)
    THEN [ok |-> FALSE, id |-> 0, t |-> t]
    ELSE [ok |-> TRUE, id |-> id,
          t |-> [t EXCEPT !.symbols = @ \cup
                    {[sym_id |-> id, raw_name |-> Some(symbol_name), dll_name |-> None,
                      ordinal |-> None, friendly_name |-> friendly_name]}]]

\* "SELECT sym_id FROM symbols WHERE dll_name = ?1 AND ordinal = ?2"
query_dll_ordinal_symbol(t, dll_name, ordinal) ==
    run_get_id_query({r.sym_id : r \in {x \in t.symbols :
                          x.dll_name = Some(dll_name) /\ x.ordinal = Some(ordinal)}})

\* the insert with NULL written in the place of the ordinal parameter
insert_dll_ordinal_symbol_null_ordinal(t, dll_name, ordinal) ==
    [ok |-> TRUE, id |-> NextRowId({r.sym_id : r \in t.symbols}),
     t |-> [t EXCEPT !.symbols = @ \cup
               {[sym_id |-> NextRowId({r.sym_id : r \in t.symbols}),
                 raw_name |-> None, dll_name |-> Some(dll_name),
                 ordinal |-> None, friendly_name |-> None]}]]

\* "INSERT INTO symbols (raw_name, dll_name, ordinal, friendly_name)
\*  VALUES (NULL, ?1, ?2, NULL) RETURNING sym_id"
insert_dll_ordinal_symbol(t, dll_name, ordinal) ==
    LET id == NextRowId({r.sym_id : r \in t.symbols}) IN
    IF SymbolConflict(t, None, Some(dll_name), Some(ordinal))
    THEN [ok |-> FALSE, id |-> 0, t |-> t]
    ELSE [ok |-> TRUE, id |-> id,
          t |-> [t EXCEPT !.symbols = @ \cup
                    {[sym_id |-> id, raw_name |-> None, dll_name |-> Some(dll_name),
                      ordinal |-> Some(ordinal), friendly_name |-> None]}]]

\* the relationship insert with the DLL and the operating system parameters
\* bound in each other's place
insert_relationship_swapped(t, sym_id, dll_id, os_id, ordinal) ==
    IF RelationshipConflict(t, [sym_id |-> sym_id, dll_id |-> os_id, os_id |-> dll_id,
                                ordinal |-> ordinal])
    THEN t
    ELSE [t EXCEPT !.symbol_dll_os =
                       Append(@, [sym_id |-> sym_id, dll_id |-> os_id, os_id |-> dll_id,
                                  ordinal |-> ordinal])]

\* "INSERT OR IGNORE INTO symbol_dll_os (sym_id, dll_id, os_id, ordinal)
\*  VALUES (?1, ?2, ?3, ?4)": a row that conflicts with the UNIQUE constraint
\* is dropped silently
insert_relationship(t, sym_id, dll_id, os_id, ordinal) ==
    LET row == [sym_id |-> sym_id, dll_id |-> dll_id, os_id |-> os_id,
                ordinal |-> ordinal] IN
    IF RelationshipConflict(t, row) THEN t
    ELSE [t EXCEPT !.symbol_dll_os = Append(@, row)]

\* ------------------------------------------------------------- demangling
\* ms_cpp_filt::demangle_cpp_name: msvc_demangler accepts the names that start
\* with '?'; the friendly name is some text derived from the raw name
demangle_cpp_name(input) ==
    IF Len(input) > 0 /\ input[1] = "?"
    THEN Some(<<"~">> \o Tail(input))
    ELSE None

\* try_demangle as it would be if the demangler were built in always
try_demangle_always(feature, symbol) == demangle_cpp_name(symbol)

\* try_demangle: the demangler's result when the ms_cpp_filt feature is built
\* in, None otherwise
try_demangle(feature, symbol) ==
    IF feature THEN demangle_cpp_name(symbol) ELSE None

\* ------------------------------------------------------------ line parser
NoRecord == [err |-> "", dll_path |-> << >>, symbol_name_opt |-> None,
             ordinal_opt |-> None]

\* the name field taken without the emptiness test
symbol_name_opt_unchecked(field) == Some(field)

\* the name field lower-cased like the path
symbol_name_opt_lowercased(field) ==
    IF Len(field) > 0 THEN Some(to_lowercase(field)) ELSE None

\* src lines 235-239
symbol_name_opt_of(field) == IF Len(field) > 0 THEN Some(field) ELSE None

\* src lines 240-248; the result is meaningful when OrdinalParses(field)
ordinal_opt_of(field) == IF Len(field) > 0 THEN parse(field) ELSE None

\* an unparsable ordinal taken as an absent one instead of panicking
OrdinalParsesAlways(field) == TRUE

\* `.expect("failed to parse ordinal")` does not panic
OrdinalParses(field) == Len(field) = 0 \/ IsSome(parse(field))

\* src lines 230-248: fields 1 and 2 once field 0 is decoded
FieldsParsed(fields, path_parts) ==
    IF ~path_parts.ok
    THEN [NoRecord EXCEPT !.err = "failed to parse field 0 as JSON"]
    ELSE IF Len(path_parts.val) # 1
    THEN [NoRecord EXCEPT !.err = "expected a single-part file path"]
    ELSE IF ~OrdinalParses(fields[2])
    THEN [NoRecord EXCEPT !.err = "failed to parse ordinal"]
    ELSE [err |-> "", dll_path |-> path_parts.val[1],
          symbol_name_opt |-> symbol_name_opt_of(fields[3]),
          ordinal_opt |-> ordinal_opt_of(fields[2])]

\* src lines 224-229
FieldsSplit(fields) ==
    IF Len(fields) # 3
    THEN [NoRecord EXCEPT !.err = "line does not have 3 fields"]
    ELSE FieldsParsed(fields, from_str(fields[1]))

\* src lines 223-248; line is the stripped, non-empty line
ParseLine(line) == FieldsSplit(split(line, TAB))

\* -------------------------------------------------------- path normalizer
\* the normalization without the lower-casing
dll_path_keep_case(dll_path) == replace(dll_path, SL, BS)

\* src lines 251-253
dll_path_lower(dll_path) == replace(to_lowercase(dll_path), SL, BS)

\* src lines 254-256
path_pieces(dll_path) == split(dll_path_lower(dll_path), BS)

\* src line 260
operating_system(dll_path) == path_pieces(dll_path)[1]

\* src line 261
dll_rel_path(dll_path) == join(Tail(path_pieces(dll_path)), BS)

\* [&str]::last
Last(pieces) == pieces[Len(pieces)]

\* the bare filename taken from the first segment after the operating system
final_dll_name_first(dll_path) == path_pieces(dll_path)[2]

\* src line 337
final_dll_name(dll_path) == Last(path_pieces(dll_path))

\* ------------------------------------------------------ identity resolver
EmptyMap == [k \in {} |-> 0]
EmptyCache == [op_sys_to_id |-> EmptyMap, dll_to_id |-> EmptyMap,
               symbol_name_to_id |-> EmptyMap,
               symbol_dll_to_ordinal_to_id |-> EmptyMap]

\* BTreeMap::insert
MapInsert(m, k, v) == [x \in DOMAIN m \cup {k} |-> IF x = k THEN v ELSE m[x]]

\* a statement that failed: the run panics
StoreFailure(t, c, log) == [ok |-> FALSE, id |-> 0, t |-> t, c |-> c, log |-> log]

\* an entry of the statement log: which prepared statement ran on which key
Stmt(name, key) == [stmt |-> name, key |-> key]

\* the result of a resolver: the ID, the tables and caches it leaves, and the
\* statements it executed
Resolution(id, t, c, log) == [ok |-> TRUE, id |-> id, t |-> t, c |-> c, log |-> log]

\* src lines 271-284: the operating system after the store lookup
OsInserted(t, c, os, ins) ==
    IF ~ins.ok
    THEN StoreFailure(t, c, <<Stmt("query_os", os), Stmt("insert_os", os)>>)
    ELSE Resolution(ins.id, ins.t,
                    [c EXCEPT !.op_sys_to_id = MapInsert(@, os, ins.id)],
                    <<Stmt("query_os", os), Stmt("insert_os", os)>>)

\* the operating system found in the store and not remembered in the cache
OsQueriedNotCached(t, c, os, op_sys_id_opt) ==
    IF IsSome(op_sys_id_opt)
    THEN Resolution(Unwrap(op_sys_id_opt), t, c, <<Stmt("query_os", os)>>)
    ELSE OsInserted(t, c, os, insert_os(t, os))

OsQueried(t, c, os, op_sys_id_opt) ==
    IF IsSome(op_sys_id_opt)
    THEN Resolution(Unwrap(op_sys_id_opt), t,
                    [c EXCEPT !.op_sys_to_id = MapInsert(@, os, Unwrap(op_sys_id_opt))],
                    <<Stmt("query_os", os)>>)
    ELSE OsInserted(t, c, os, insert_os(t, os))

\* src lines 263-285
resolve_os(t, c, os) ==
    IF os \in DOMAIN c.op_sys_to_id
    THEN Resolution(c.op_sys_to_id[os], t, c, << >>)
    ELSE OsQueried(t, c, os, query_os(t, os))

\* src lines 296-306: the DLL after the store lookup
DllInserted(t, c, path, ins) ==
    IF ~ins.ok
    THEN StoreFailure(t, c, <<Stmt("query_dll", path), Stmt("insert_dll", path)>>)
    ELSE Resolution(ins.id, ins.t,
                    [c EXCEPT !.dll_to_id = MapInsert(@, path, ins.id)],
                    <<Stmt("query_dll", path), Stmt("insert_dll", path)>>)

\* the DLL inserted whatever the store lookup found
DllQueriedAlwaysInserts(t, c, path, dll_id_opt) ==
    DllInserted(t, c, path, insert_dll(t, path, NOT_A_SECONDARY_PLATFORM))

DllQueried(t, c, path, dll_id_opt) ==
    IF IsSome(dll_id_opt)
    THEN Resolution(Unwrap(dll_id_opt), t,
                    [c EXCEPT !.dll_to_id = MapInsert(@, path, Unwrap(dll_id_opt))],
                    <<Stmt("query_dll", path)>>)
    ELSE DllInserted(t, c, path, insert_dll(t, path, NOT_A_SECONDARY_PLATFORM))

\* the DLL looked up in the store without asking the cache
resolve_dll_uncached(t, c, path) == DllQueried(t, c, path, query_dll(t, path))

\* src lines 287-307
resolve_dll(t, c, path) ==
    IF path \in DOMAIN c.dll_to_id
    THEN Resolution(c.dll_to_id[path], t, c, << >>)
    ELSE DllQueried(t, c, path, query_dll(t, path))

\* src lines 319-333: the named symbol after the store lookup
NamedSymbolInserted(t, c, symbol_name, ins) ==
    IF ~ins.ok
    THEN StoreFailure(t, c, <<Stmt("query_named_symbol", symbol_name),
                              Stmt("try_demangle", symbol_name),
                              Stmt("insert_named_symbol", symbol_name)>>)
    ELSE Resolution(ins.id, ins.t,
                    [c EXCEPT !.symbol_name_to_id = MapInsert(@, symbol_name, ins.id)],
                    <<Stmt("query_named_symbol", symbol_name),
                      Stmt("try_demangle", symbol_name),
                      Stmt("insert_named_symbol", symbol_name)>>)

\* the demangler called before the result of the store lookup is looked at
NamedSymbolQueriedDemanglingFirst(t, c, feature, symbol_name, named_id_opt) ==
    IF IsSome(named_id_opt)
    THEN Resolution(Unwrap(named_id_opt), t,
                    [c EXCEPT !.symbol_name_to_id =
                                  MapInsert(@, symbol_name, Unwrap(named_id_opt))],
                    <<Stmt("query_named_symbol", symbol_name),
                      Stmt("try_demangle", symbol_name)>>)
    ELSE NamedSymbolInserted(t, c, symbol_name,
             insert_named_symbol(t, symbol_name, try_demangle(feature, symbol_name)))

NamedSymbolQueried(t, c, feature, symbol_name, named_id_opt) ==
    IF IsSome(named_id_opt)
    THEN Resolution(Unwrap(named_id_opt), t,
                    [c EXCEPT !.symbol_name_to_id =
                                  MapInsert(@, symbol_name, Unwrap(named_id_opt))],
                    <<Stmt("query_named_symbol", symbol_name)>>)
    ELSE NamedSymbolInserted(t, c, symbol_name,
             insert_named_symbol(t, symbol_name, try_demangle(feature, symbol_name)))

\* src lines 311-334
resolve_named_symbol(t, c, feature, symbol_name) ==
    IF symbol_name \in DOMAIN c.symbol_name_to_id
    THEN Resolution(c.symbol_name_to_id[symbol_name], t, c, << >>)
    ELSE NamedSymbolQueried(t, c, feature, symbol_name,
                            query_named_symbol(t, symbol_name))

\* symbol_dll_to_ordinal_to_id.entry(name).or_insert_with(BTreeMap::new).insert(ordinal, sid)
OrdinalCacheInsert(m, name, ordinal, sid) ==
    MapInsert(m, name,
              MapInsert(IF name \in DOMAIN m THEN m[name] ELSE EmptyMap, ordinal, sid))

\* the created ordinal symbol remembered in the cache of the named symbols
OrdinalSymbolInsertedIntoNameCache(t, c, name, ordinal, ins) ==
    IF ~ins.ok
    THEN StoreFailure(t, c, <<Stmt("query_dll_ordinal_symbol", <<name, ordinal>>),
                              Stmt("insert_dll_ordinal_symbol", <<name, ordinal>>)>>)
    ELSE Resolution(ins.id, ins.t,
                    [c EXCEPT !.symbol_name_to_id = MapInsert(@, name, ins.id)],
                    <<Stmt("query_dll_ordinal_symbol", <<name, ordinal>>),
                      Stmt("insert_dll_ordinal_symbol", <<name, ordinal>>)>>)

\* src lines 348-361: the ordinal symbol after the store lookup
OrdinalSymbolInserted(t, c, name, ordinal, ins) ==
    IF ~ins.ok
    THEN StoreFailure(t, c, <<Stmt("query_dll_ordinal_symbol", <<name, ordinal>>),
                              Stmt("insert_dll_ordinal_symbol", <<name, ordinal>>)>>)
    ELSE Resolution(ins.id, ins.t,
                    [c EXCEPT !.symbol_dll_to_ordinal_to_id =
                                  OrdinalCacheInsert(@, name, ordinal, ins.id)],
                    <<Stmt("query_dll_ordinal_symbol", <<name, ordinal>>),
                      Stmt("insert_dll_ordinal_symbol", <<name, ordinal>>)>>)

OrdinalSymbolQueried(t, c, name, ordinal, ordinal_id_opt) ==
    IF IsSome(ordinal_id_opt)
    THEN Resolution(Unwrap(ordinal_id_opt), t,
                    [c EXCEPT !.symbol_dll_to_ordinal_to_id =
                                  OrdinalCacheInsert(@, name, ordinal, Unwrap(ordinal_id_opt))],
                    <<Stmt("query_dll_ordinal_symbol", <<name, ordinal>>)>>)
    ELSE OrdinalSymbolInserted(t, c, name, ordinal,
                               insert_dll_ordinal_symbol(t, name, ordinal))

\* src lines 338-362; a u64 above i64::MAX cannot be bound to the statement
resolve_dll_ordinal_symbol(t, c, name, ordinal) ==
    IF name \in DOMAIN c.symbol_dll_to_ordinal_to_id
       /\ ordinal \in DOMAIN c.symbol_dll_to_ordinal_to_id[name]
    THEN Resolution(c.symbol_dll_to_ordinal_to_id[name][ordinal], t, c, << >>)
    ELSE IF ~U64ToSqlOk(ordinal)
    THEN StoreFailure(t, c, <<Stmt("query_dll_ordinal_symbol", <<name, ordinal>>)>>)
    ELSE OrdinalSymbolQueried(t, c, name, ordinal,
                              query_dll_ordinal_symbol(t, name, ordinal))

\* the variant test with the ordinal tested before the name
SymbolVariantOrdinalFirst(symbol_name_opt, ordinal_opt) ==
    IF IsSome(ordinal_opt) THEN "DllOrdinal"
    ELSE IF IsSome(symbol_name_opt) THEN "Named"
    ELSE "neither"

\* src lines 310, 335, 363: the symbol variant chosen for a record
SymbolVariant(symbol_name_opt, ordinal_opt) ==
    IF IsSome(symbol_name_opt) THEN "Named"
    ELSE IF IsSome(ordinal_opt) THEN "DllOrdinal"
    ELSE "neither"

\* ordinal-only symbols scoped by the whole DLL-relative path
OrdinalSymbolScopeFullPath(dll_path) == dll_rel_path(dll_path)

\* src line 337 and its use in lines 338-360: the DLL name that scopes an
\* ordinal-only symbol
OrdinalSymbolScope(dll_path) == final_dll_name(dll_path)

\* src lines 309-365
VariantResolved(t, c, feature, rec, variant) ==
    IF variant = "Named"
    THEN resolve_named_symbol(t, c, feature, Unwrap(rec.symbol_name_opt))
    ELSE IF variant = "DllOrdinal"
    THEN resolve_dll_ordinal_symbol(t, c, OrdinalSymbolScope(rec.dll_path),
                                    Unwrap(rec.ordinal_opt))
    ELSE StoreFailure(t, c, << >>)

resolve_symbol(t, c, feature, rec) ==
    VariantResolved(t, c, feature, rec,
                    SymbolVariant(rec.symbol_name_opt, rec.ordinal_opt))

\* ------------------------------------------------------- one input record
\* What became of one stripped, non-empty line (src lines 223-370): the
\* tables and caches as the line leaves them, the panic message if it
\* panicked, the identifiers it resolved and the statements it executed.
Outcome(panic, t, c, rec, os_id, dll_id, sym_id, log) ==
    [panic |-> panic, t |-> t, c |-> c, rec |-> rec,
     os_id |-> os_id, dll_id |-> dll_id, sym_id |-> sym_id, log |-> log]

\* the relationship written with the ordinal of the symbol's identity, which
\* a named symbol does not have
RelationshipWrittenSymbolOrdinal(rec, o, d, y, rel) ==
    IF IsSome(rec.ordinal_opt) /\ ~U64ToSqlOk(Unwrap(rec.ordinal_opt))
    THEN Outcome("failed to add relationship", y.t, y.c, rec, o.id, d.id, y.id,
                 o.log \o d.log \o y.log \o rel)
    ELSE Outcome("", insert_relationship(y.t, y.id, d.id, o.id,
                         IF IsSome(rec.symbol_name_opt) THEN None ELSE rec.ordinal_opt),
                 y.c, rec, o.id, d.id, y.id, o.log \o d.log \o y.log \o rel)

\* src lines 367-370: o, d and y are the three resolutions of the record
RelationshipWritten(rec, o, d, y, rel) ==
    IF IsSome(rec.ordinal_opt) /\ ~U64ToSqlOk(Unwrap(rec.ordinal_opt))
    THEN Outcome("failed to add relationship", y.t, y.c, rec, o.id, d.id, y.id,
                 o.log \o d.log \o y.log \o rel)
    ELSE Outcome("", insert_relationship(y.t, y.id, d.id, o.id, rec.ordinal_opt),
                 y.c, rec, o.id, d.id, y.id, o.log \o d.log \o y.log \o rel)

\* src lines 309-370
SymbolResolved(rec, o, d, y) ==
    IF SymbolVariant(rec.symbol_name_opt, rec.ordinal_opt) = "neither"
    THEN Outcome("symbol with neither name nor ordinal", d.t, d.c, rec, o.id, d.id, 0,
                 o.log \o d.log)
    ELSE IF ~y.ok
    THEN Outcome("failed to run symbol query", y.t, y.c, rec, o.id, d.id, 0,
                 o.log \o d.log \o y.log)
    ELSE RelationshipWritten(rec, o, d, y,
             <<Stmt("insert_relationship", <<y.id, d.id, o.id, rec.ordinal_opt>>)>>)

\* src lines 287-370
DllResolved(feature, rec, o, d) ==
    IF ~d.ok
    THEN Outcome("failed to run insert-ID query", d.t, d.c, rec, o.id, 0, 0,
                 o.log \o d.log)
    ELSE SymbolResolved(rec, o, d, resolve_symbol(d.t, d.c, feature, rec))

\* src lines 263-370
OsResolved(feature, rec, o) ==
    IF ~o.ok
    THEN Outcome("failed to run insert-ID query", o.t, o.c, rec, 0, 0, 0, o.log)
    ELSE DllResolved(feature, rec, o, resolve_dll(o.t, o.c, dll_rel_path(rec.dll_path)))

\* src lines 250-370: the record once the line is parsed
ProcessRecord(t, c, feature, rec) ==
    IF rec.err # "" THEN Outcome(rec.err, t, c, rec, 0, 0, 0, << >>)
    ELSE IF Len(path_pieces(rec.dll_path)) < 2
    THEN Outcome("expected at least two path pieces", t, c, rec, 0, 0, 0, << >>)
    ELSE OsResolved(feature, rec, resolve_os(t, c, operating_system(rec.dll_path)))

\* src lines 223-370
ProcessLine(t, c, feature, line) == ProcessRecord(t, c, feature, ParseLine(line))

\* ------------------------------------------------------------ input files
\* JSON encoding of a one-element array of strings (what the exporter writes)
RECURSIVE JsonEscape(_)
JsonEscape(s) ==
    IF Len(s) = 0 THEN << >>
    ELSE (IF Head(s) \in {BS, DQ} THEN <<BS, Head(s)>> ELSE <<Head(s)>>)
         \o JsonEscape(Tail(s))

JsonArray1(path) == <<"[", DQ>> \o JsonEscape(path) \o <<DQ, "]">>

Line(field0, field1, field2, eol) ==
    field0 \o <<TAB>> \o field1 \o <<TAB>> \o field2 \o eol

PathWF == <<"w", BS, "f">>
PathUpperWF == <<"W", SL, "F">>
PathWSF == <<"w", BS, "s", BS, "f">>
PathXOF == <<"x", BS, "o", BS, "f">>
PathF == <<"f">>

\* The lines input files are made of: well-formed records of each variant
\* (one of them a last line without terminator) and a blank line.
Chunks ==
    << Line(JsonArray1(PathWF), << >>, <<"A">>, <<NL>>),
       Line(JsonArray1(PathWF), <<"7">>, << >>, <<NL>>),
       Line(JsonArray1(PathUpperWF), <<"7">>, << >>, <<NL>>),
       Line(JsonArray1(PathXOF), <<"7">>, << >>, <<CR, NL>>),
       Line(JsonArray1(PathWSF), <<"7">>, <<"A">>, <<NL>>),
       Line(JsonArray1(PathWF), <<"+", "5">>, <<"A">>, <<NL>>),
       Line(JsonArray1(PathUpperWF), << >>, <<"a">>, << >>),
       Line(JsonArray1(PathWF), << >>, <<"?", "A">>, <<NL>>),
       <<CR, NL>> >>

\* one malformed record of each kind: neither name nor ordinal, two fields,
\* invalid JSON, an array of two strings, an ordinal that is no number, a
\* path of one segment
MalformedChunks ==
    << Line(JsonArray1(PathWF), << >>, << >>, <<NL>>),
       JsonArray1(PathWF) \o <<TAB, "7", NL>>,
       Line(<<"[", DQ, "w", BS, BS, "f", DQ>>, << >>, <<"A">>, <<NL>>),
       Line(<<"[", DQ, "w", DQ, ",", DQ, "f", DQ, "]">>, << >>, <<"A">>, <<NL>>),
       Line(JsonArray1(PathWF), <<"x">>, <<"A">>, <<NL>>),
       Line(JsonArray1(PathF), <<"7">>, << >>, <<NL>>) >>

RECURSIVE Concat(_)
Concat(chunks) ==
    IF Len(chunks) = 0 THEN << >> ELSE Head(chunks) \o Concat(Tail(chunks))

\* the files of up to n lines taken from Chunks
FilesOf(n) ==
    {Concat([i \in DOMAIN f |-> Chunks[f[i]]]) :
        f \in UNION {[1..k -> 1..Len(Chunks)] : k \in 0..n}}

\* The input files: up to MaxLines lines, of which one may be malformed.  A
\* run ends at a malformed line, so that line is the last one, or is
\* followed by one more line that is never read.
InputFiles ==
    FilesOf(MaxLines)
    \cup {f \o MalformedChunks[b] :
             f \in FilesOf(MaxLines - 1), b \in 1..Len(MalformedChunks)}
    \cup {f \o MalformedChunks[b] \o Chunks[1] :
             f \in FilesOf(MaxLines - 2), b \in 1..Len(MalformedChunks)}

\* The lines long input files are made of: a record with a long symbol name,
\* a short record, a line of one byte and a malformed line.
LongChunks ==
    << Line(JsonArray1(PathWF), << >>, [i \in 1..LongNameLen |-> "A"], <<NL>>),
       Line(JsonArray1(PathWF), <<"7">>, << >>, <<NL>>),
       <<NL>>,
       <<"x", NL>> >>

\* input files of some thousand bytes, in which reading a short line does
\* not always move the per-mille progress
LongInputFiles ==
    {Concat([i \in DOMAIN f |-> LongChunks[f[i]]]) :
        f \in UNION {[1..k -> 1..Len(LongChunks)] : k \in 0..MaxLongLines}}

\* BufRead::read_line: the bytes after offset pos up to and including the
\* next '\n', or up to the end of the file
read_line(f, pos) ==
    LET rest == SubSeq(f, pos + 1, Len(f)) IN
    IF \E i \in 1..Len(rest) : rest[i] = NL
    THEN SubSeq(rest, 1, CHOOSE i \in 1..Len(rest) :
                             rest[i] = NL /\ \A k \in 1..(i-1) : rest[k] # NL)
    ELSE rest

\* ---------------------------------------------------------- initial stores
\* the rows a committed run over the kernel-style input
\*   ["w\\f"] <TAB> <TAB> A   and   ["w\\f"] <TAB> 7 <TAB>
\* leaves in a store
LoadedTables ==
    [operating_systems |-> {[os_id |-> 1, short_name |-> <<"w">>, long_name |-> None]},
     dlls |-> {[dll_id |-> 1, path |-> <<"f">>, secondary_platform |-> FALSE]},
     symbols |-> {[sym_id |-> 1, raw_name |-> Some(<<"A">>), dll_name |-> None,
                   ordinal |-> None, friendly_name |-> None],
                  [sym_id |-> 2, raw_name |-> None, dll_name |-> Some(<<"f">>),
                   ordinal |-> Some(<<"7">>), friendly_name |-> None],
                  [sym_id |-> 3, raw_name |-> Some(<<"?", "A">>), dll_name |-> None,
                   ordinal |-> None, friendly_name |-> None]},
     symbol_dll_os |-> << [sym_id |-> 1, dll_id |-> 1, os_id |-> 1, ordinal |-> None],
                          [sym_id |-> 2, dll_id |-> 1, os_id |-> 1,
                           ordinal |-> Some(<<"7">>)] >>]

Store(exists, schema, ver, tables) ==
    [schema_version_exists |-> exists, schema |-> schema, ver |-> ver,
     tables |-> tables]

\* a database file that does not exist yet, stores of schema version 1, 2
\* and 3 that hold rows, and stores whose version row is corrupt (0, -1)
InitialStores ==
    { Store(FALSE, "none", 0, EmptyTables),
      Store(TRUE, "r0001", 1, LoadedTables),
      Store(TRUE, "r0002", 2, LoadedTables),
      Store(TRUE, "r0003", 3, LoadedTables),
      Store(TRUE, "r0002", 0, LoadedTables),
      Store(TRUE, "r0002", -1, EmptyTables) }

\* db/schema.sql: creates the tables and the version row
ApplyBaselineSchema(d) ==
    Store(TRUE, "r0002", BASELINE_SCHEMA_VERSION, EmptyTables)

\* db/migrations/r0001_to_r0002.sql: upgrades the schema in place
ApplyMigration(d) ==
    [d EXCEPT !.schema = "r0002", !.ver = 2]

\* ------------------------------------------------------------------ state
VARIABLES
    db,           \* the committed content of the store
    txn,          \* None, or Some(tables as seen inside the open transaction)
    cache,        \* the four natural-key -> id maps of the run
    reader,       \* list_reader and the progress counters
    stderr,       \* what the run wrote to the diagnostic stream
    file,         \* the content of the input file
    ms_cpp_filt,  \* whether the binary was built with the demangler
    pc,           \* where do_load is
    run,          \* number of runs started so far
    panic,        \* message of the panic that ended the run, "" if none
    pre,          \* the store as it was when the current run started
    db0,          \* the store as it was before the first run
    resolved      \* per record completed in this run: what it resolved to

vars == <<db, txn, cache, reader, stderr, file, ms_cpp_filt, pc, run, panic,
          pre, db0, resolved>>

ClosedReader == [open |-> FALSE, pos |-> 0, file_length |-> 0,
                 file_bytes_read |-> 0, last_file_percentage |-> 0]

Init ==
    /\ db \in InitialStores
    /\ file \in InputFiles
    /\ ms_cpp_filt \in BOOLEAN
    /\ txn = None
    /\ cache = EmptyCache
    /\ reader = ClosedReader
    /\ stderr = << >>
    /\ pc = "idle"
    /\ run = 0
    /\ panic = ""
    /\ pre = db
    /\ db0 = db
    /\ resolved = << >>

\* the loader started on a long input file and a fresh store
LongInit ==
    /\ db = Store(FALSE, "none", 0, EmptyTables)
    /\ file \in LongInputFiles
    /\ ms_cpp_filt \in BOOLEAN
    /\ txn = None
    /\ cache = EmptyCache
    /\ reader = ClosedReader
    /\ stderr = << >>
    /\ pc = "idle"
    /\ run = 0
    /\ panic = ""
    /\ pre = db
    /\ db0 = db
    /\ resolved = << >>

\* the version check with `<` in place of `<=`
InvalidSchemaVersionStrict(schema_version) == schema_version < 0

\* the version check that also refuses versions above MAX_SUPPORTED_SCHEMA
InvalidSchemaVersionOrNewer(schema_version) ==
    schema_version <= 0 \/ schema_version > MAX_SUPPORTED_SCHEMA

\* src line 129
InvalidSchemaVersion(schema_version) == schema_version <= 0

\* the migration test with `>=` in place of `==`
NeedsMigrationFromAny(schema_version) == schema_version >= 1

\* the migration test with `<= MAX_SUPPORTED_SCHEMA` in place of `== 1`
NeedsMigrationUpToMax(schema_version) == schema_version <= MAX_SUPPORTED_SCHEMA

\* src line 132
NeedsMigration(schema_version) == schema_version = 1

\* src lines 121-143: the gate once the version is read from the store d
VersionRead(d, schema_version) ==
    IF InvalidSchemaVersion(schema_version)
    THEN /\ db' = d
         /\ pc' = "panicked"
         /\ panic' = "database has invalid schema version"
         /\ stderr' = << >>
    ELSE /\ db' = IF NeedsMigration(schema_version) THEN ApplyMigration(d) ELSE d
         /\ pc' = "gated"
         /\ panic' = ""
         /\ stderr' =
              (IF NeedsMigration(schema_version)
               THEN <<[kind |-> "update", val |-> 2]>> ELSE << >>)
              \o (IF schema_version > MAX_SUPPORTED_SCHEMA
                  THEN <<[kind |-> "warning", val |-> schema_version]>>
                  ELSE << >>)

\* src lines 112-143: the gate on the store d, populated if it was fresh
Populated(d) == VersionRead(d, d.ver)

\* the gate without the table_exists test: the baseline schema is applied to
\* every store
SchemaGatePopulatingAlways ==
    /\ pc \in {"idle", "done", "aborted"}
    /\ run < MaxRuns
    /\ pre' = db
    /\ Populated(ApplyBaselineSchema(db))
    /\ run' = run + 1
    /\ txn' = None
    /\ cache' = EmptyCache
    /\ reader' = ClosedReader
    /\ resolved' = << >>
    /\ UNCHANGED <<file, ms_cpp_filt, db0>>

\* src lines 102-143: open the database and check the schema.  The schema
\* statements run in autocommit mode, before the transaction exists.
SchemaGate ==
    /\ pc \in {"idle", "done", "aborted"}
    /\ run < MaxRuns
    /\ pre' = db
    /\ Populated(IF ~db.schema_version_exists THEN ApplyBaselineSchema(db) ELSE db)
    /\ run' = run + 1
    /\ txn' = None
    /\ cache' = EmptyCache
    /\ reader' = ClosedReader
    /\ resolved' = << >>
    /\ UNCHANGED <<file, ms_cpp_filt, db0>>

\* the run as it would start if it emptied the data tables first
BeginTransactionTruncating ==
    /\ pc = "gated"
    /\ txn' = Some(EmptyTables)
    /\ cache' = EmptyCache
    /\ reader' = [open |-> TRUE, pos |-> 0, file_length |-> Len(file),
                  file_bytes_read |-> 0, last_file_percentage |-> 0]
    /\ pc' = "loop"
    /\ UNCHANGED <<db, stderr, file, ms_cpp_filt, run, panic, pre, db0, resolved>>

\* src lines 145-196: start the transaction, prepare the statements, create
\* the caches, open the list file and measure it
BeginTransaction ==
    /\ pc = "gated"
    /\ txn' = Some(db.tables)
    /\ cache' = EmptyCache
    /\ reader' = [open |-> TRUE, pos |-> 0, file_length |-> Len(file),
                  file_bytes_read |-> 0, last_file_percentage |-> 0]
    /\ pc' = "loop"
    /\ UNCHANGED <<db, stderr, file, ms_cpp_filt, run, panic, pre, db0, resolved>>

\* the loop left without the end-of-file test
LoopBreakAnywhere ==
    /\ pc = "loop"
    /\ pc' = "eof"
    /\ UNCHANGED <<db, txn, cache, reader, stderr, file, ms_cpp_filt, run, panic,
                   pre, db0, resolved>>

\* src lines 199-205: read_line returns 0 bytes, the loop ends
LoopBreak ==
    /\ pc = "loop"
    /\ Len(read_line(file, reader.pos)) = 0
    /\ pc' = "eof"
    /\ UNCHANGED <<db, txn, cache, reader, stderr, file, ms_cpp_filt, run, panic,
                   pre, db0, resolved>>

\* the progress computed in percent
ProgressPercent(bytes_read) ==
    ((reader.file_bytes_read + bytes_read) * 100) \div reader.file_length

\* src lines 207-213: the progress counters after bytes_read more bytes
Progress(bytes_read) ==
    ((reader.file_bytes_read + bytes_read) * 1000) \div reader.file_length

\* the progress reported also when the per-mille value did not move
ReadAndReportOnEqual(bytes_read, now_file_percentage) ==
    /\ reader' = [reader EXCEPT
                     !.pos = @ + bytes_read,
                     !.file_bytes_read = @ + bytes_read,
                     !.last_file_percentage =
                         IF @ <= now_file_percentage THEN now_file_percentage ELSE @]
    /\ stderr' = IF reader.last_file_percentage <= now_file_percentage
                 THEN Append(stderr, [kind |-> "permille", val |-> now_file_percentage])
                 ELSE stderr

ReadAndReport(bytes_read, now_file_percentage) ==
    /\ reader' = [reader EXCEPT
                     !.pos = @ + bytes_read,
                     !.file_bytes_read = @ + bytes_read,
                     !.last_file_percentage =
                         IF @ < now_file_percentage THEN now_file_percentage ELSE @]
    /\ stderr' = IF reader.last_file_percentage < now_file_percentage
                 THEN Append(stderr, [kind |-> "permille", val |-> now_file_percentage])
                 ELSE stderr

\* src lines 223-370: what the record leaves behind
RecordDone(out) ==
    /\ txn' = Some(out.t)
    /\ cache' = out.c
    /\ panic' = out.panic
    /\ pc' = IF out.panic # "" THEN "panicked" ELSE "loop"
    /\ resolved' = Append(resolved,
                          [panic |-> out.panic, rec |-> out.rec, os_id |-> out.os_id,
                           dll_id |-> out.dll_id, sym_id |-> out.sym_id,
                           log |-> out.log])

\* the line handed to the parser without the test for an empty line
LineStrippedNoSkip(stripped) ==
    RecordDone(ProcessLine(Unwrap(txn), cache, ms_cpp_filt, stripped))

\* src lines 215-370: the line with its trailing newlines stripped
LineStripped(stripped) ==
    IF Len(stripped) = 0
    THEN UNCHANGED <<txn, cache, pc, panic, resolved>>
    ELSE RecordDone(ProcessLine(Unwrap(txn), cache, ms_cpp_filt, stripped))

\* src lines 207-370: the line that was read
LineRead(line) ==
    /\ Len(line) # 0
    /\ ReadAndReport(Len(line), Progress(Len(line)))
    /\ LineStripped(StripNewlines(line))

\* src lines 199-371: one iteration of the loop over a line that was read
LoopIteration ==
    /\ pc = "loop"
    /\ LineRead(read_line(file, reader.pos))
    /\ UNCHANGED <<db, file, ms_cpp_filt, run, pre, db0>>

\* src lines 374-376: commit the transaction
Commit ==
    /\ pc = "eof"
    /\ db' = [db EXCEPT !.tables = Unwrap(txn)]
    /\ txn' = None
    /\ reader' = [reader EXCEPT !.open = FALSE]
    /\ pc' = "done"
    /\ UNCHANGED <<cache, stderr, file, ms_cpp_filt, run, panic, pre, db0, resolved>>

\* Unwind as it would be if a panic left the transaction committed
UnwindCommitting ==
    /\ pc = "panicked"
    /\ db' = IF IsSome(txn) THEN [db EXCEPT !.tables = Unwrap(txn)] ELSE db
    /\ txn' = None
    /\ reader' = [reader EXCEPT !.open = FALSE]
    /\ pc' = "aborted"
    /\ UNCHANGED <<cache, stderr, file, ms_cpp_filt, run, panic, pre, db0, resolved>>

\* a panic unwinds do_load: the Transaction is dropped without commit, which
\* rolls it back, and the process exits
Unwind ==
    /\ pc = "panicked"
    /\ txn' = None
    /\ reader' = [reader EXCEPT !.open = FALSE]
    /\ pc' = "aborted"
    /\ UNCHANGED <<db, cache, stderr, file, ms_cpp_filt, run, panic, pre, db0,
                   resolved>>

Next ==
    \/ SchemaGate
    \/ BeginTransaction
    \/ LoopBreak
    \/ LoopIteration
    \/ Commit
    \/ Unwind

Spec == Init /\ [][Next]_vars

\* the loader on long input files
LongSpec == LongInit /\ [][Next]_vars

\* ================================================================ claims
\* ---------------------------------------------------- notions of the claims
\* the data tables as the run sees them
Tables == IF IsSome(txn) THEN Unwrap(txn) ELSE db.tables

\* record i of the run was processed to its end, and what the run wrote is
\* in sight (in the open transaction, or committed)
Completed(i) == resolved[i].panic = "" /\ pc # "aborted"

InsertStmts == {"insert_os", "insert_dll", "insert_named_symbol",
                "insert_dll_ordinal_symbol", "insert_relationship"}

\* record i of the run executed at least one insert statement
Inserted(i) ==
    \E k \in 1..Len(resolved[i].log) : resolved[i].log[k].stmt \in InsertStmts

MalformedRecordPanics ==
    {"line does not have 3 fields", "failed to parse field 0 as JSON",
     "expected a single-part file path", "failed to parse ordinal",
     "expected at least two path pieces", "symbol with neither name nor ordinal"}

\* a path lower-cased and with '/' replaced by '\'
LowerBackslash(p) == replace(to_lowercase(p), SL, BS)

\* the part of s before its first backslash, and the part after it
FirstBackslash(s) ==
    CHOOSE i \in 1..Len(s) : s[i] = BS /\ \A k \in 1..(i-1) : s[k] # BS
BeforeFirstBackslash(s) == SubSeq(s, 1, FirstBackslash(s) - 1)
AfterFirstBackslash(s) == SubSeq(s, FirstBackslash(s) + 1, Len(s))

\* the part of s after its last backslash
LastBackslash(s) ==
    CHOOSE i \in 1..Len(s) : s[i] = BS /\ \A k \in (i+1)..Len(s) : s[k] # BS
AfterLastBackslash(s) == SubSeq(s, LastBackslash(s) + 1, Len(s))

\* the fields of the line the next loop iteration reads
NextFields == split(StripNewlines(read_line(file, reader.pos)), TAB)

\* the next step processes a line (it appends an entry to resolved)
ProcessesLine == pc = "loop" /\ Len(resolved') = Len(resolved) + 1

RowCounts(t) ==
    <<Cardinality(t.operating_systems), Cardinality(t.dlls),
      Cardinality(t.symbols), Len(t.symbol_dll_os)>>

\* number of symbol_dll_os rows equal to row
RowsEqualTo(t, row) ==
    Cardinality({k \in 1..Len(t.symbol_dll_os) : t.symbol_dll_os[k] = row})

Fact(i) == [sym_id |-> resolved[i].sym_id, dll_id |-> resolved[i].dll_id,
            os_id |-> resolved[i].os_id, ordinal |-> resolved[i].rec.ordinal_opt]

\* ------------------------------------------------------------------- C1
\* C1: when a run panics on a malformed record (wrong field count, bad JSON,
\* wrong array arity, unparsable ordinal, path with fewer than 2 segments,
\* neither name nor ordinal), nothing is committed: the committed data tables
\* are those from before the run, whatever records 1..N-1 inserted.
C1_MalformedRecordCommitsNothing ==
    (pc \in {"panicked", "aborted"} /\ panic \in MalformedRecordPanics)
        => db.tables = pre.tables

\* an aborted run whose first record inserted rows and whose second record
\* was malformed
C1_Witness ==
    /\ pc = "aborted"
    /\ panic \in MalformedRecordPanics
    /\ Len(resolved) = 2
    /\ resolved[1].panic = "" /\ Inserted(1)
    /\ db.tables = pre.tables

\* ------------------------------------------------------------------- C2
\* C2 (as claimed): after a run that aborts partway through the input, the
\* store equals the store before the run: schema, schema version and rows.
C2_StoreExactlyAsBefore ==
    (pc = "aborted" /\ Len(resolved) > 0) => db = pre

\* C2 (amended): after a run that aborts partway through the input, all rows
\* of the data tables equal those before the run; schema and schema version
\* are as the Schema Gate left them: unchanged for a version >= 2, upgraded
\* to 2 from version 1, the baseline schema for a store without
\* schema_version table.
C2_RowsAsBeforeSchemaAsGated ==
    (pc = "aborted" /\ Len(resolved) > 0) =>
        /\ db.tables = pre.tables
        /\ (pre.schema_version_exists /\ pre.ver >= 2) => db = pre
        /\ (pre.schema_version_exists /\ pre.ver = 1) =>
               (db.schema_version_exists /\ db.ver = 2 /\ db.schema = "r0002")
        /\ ~pre.schema_version_exists =>
               (db.schema_version_exists /\ db.ver = BASELINE_SCHEMA_VERSION
                /\ db.schema = "r0002")

\* a version-1 store with rows, upgraded by the gate, whose run then aborted
\* after a record had inserted rows
C2_Witness ==
    /\ pc = "aborted"
    /\ Len(resolved) >= 2
    /\ Inserted(1)
    /\ pre.schema_version_exists /\ pre.ver = 1
    /\ pre.tables = LoadedTables
    /\ db.ver = 2 /\ db.tables = pre.tables

\* ------------------------------------------------------------------- C3
\* C3: a second run with the same well-formed input on the store a first run
\* made from a fresh store creates nothing: every table has the same row
\* count, and the same rows, as after the first run.
C3_ReingestCreatesNothing ==
    (pc = "done" /\ run = 2 /\ ~db0.schema_version_exists) =>
        /\ RowCounts(db.tables) = RowCounts(pre.tables)
        /\ db.tables = pre.tables

\* ------------------------------------------------------------------- C4
\* C4: a record fed twice or more in one run, also one of a named symbol
\* without ordinal, leaves exactly one symbol_dll_os row for its tuple and
\* raises no error.
C4_RepeatedFactOneRow ==
    \A i, j \in 1..Len(resolved) :
        (i < j /\ Completed(i) /\ resolved[i].rec = resolved[j].rec) =>
            /\ Completed(j)
            /\ RowsEqualTo(Tables, Fact(j)) = 1

\* ------------------------------------------------------------------- C5
OrdinalOnly(i) ==
    ~IsSome(resolved[i].rec.symbol_name_opt) /\ IsSome(resolved[i].rec.ordinal_opt)

NormalizedPath(i) == LowerBackslash(resolved[i].rec.dll_path)

\* records i and j, whose normalized paths have these operating-system
\* segments, DLL-relative paths and last segments, share what they should
SharedByParts(i, j, os_i, rel_i, bare_i, os_j, rel_j, bare_j) ==
    /\ ( /\ OrdinalOnly(i) /\ OrdinalOnly(j)
         /\ resolved[i].rec.ordinal_opt = resolved[j].rec.ordinal_opt
         /\ bare_i = bare_j )
       => /\ resolved[i].sym_id = resolved[j].sym_id
          /\ Cardinality({r \in Tables.symbols :
                /\ r.dll_name = Some(bare_i)
                /\ r.ordinal = resolved[i].rec.ordinal_opt}) = 1
    /\ (resolved[i].dll_id = resolved[j].dll_id) <=> (rel_i = rel_j)
    /\ (resolved[i].os_id = resolved[j].os_id) <=> (os_i = os_j)

SharedByPaths(i, j, p, q) ==
    SharedByParts(i, j,
                  BeforeFirstBackslash(p), AfterFirstBackslash(p), AfterLastBackslash(p),
                  BeforeFirstBackslash(q), AfterFirstBackslash(q), AfterLastBackslash(q))

\* C5: ordinal-only records with the same ordinal whose normalized paths end
\* in the same last segment resolve to one symbols row, whatever their
\* operating-system segment and directory; records get the same dll_id
\* exactly when their normalized DLL-relative paths are equal and the same
\* os_id exactly when their operating-system segments are equal.
C5_OrdinalSymbolsScopedByFilename ==
    \A i, j \in 1..Len(resolved) :
        (i <= j /\ Completed(i) /\ Completed(j)) =>
            SharedByPaths(i, j, NormalizedPath(i), NormalizedPath(j))

\* two ordinal-only records at ordinal 7 of w\f and x\o\f: one symbol, two
\* DLLs, two operating systems
C5_Witness ==
    /\ pc = "done"
    /\ \E i, j \in 1..Len(resolved) :
        /\ OrdinalOnly(i) /\ OrdinalOnly(j)
        /\ resolved[i].rec.ordinal_opt = resolved[j].rec.ordinal_opt
        /\ AfterLastBackslash(NormalizedPath(i)) = AfterLastBackslash(NormalizedPath(j))
        /\ AfterFirstBackslash(NormalizedPath(i)) # AfterFirstBackslash(NormalizedPath(j))
        /\ BeforeFirstBackslash(NormalizedPath(i)) # BeforeFirstBackslash(NormalizedPath(j))
        /\ resolved[i].sym_id = resolved[j].sym_id
        /\ resolved[i].dll_id # resolved[j].dll_id
        /\ resolved[i].os_id # resolved[j].os_id

\* ------------------------------------------------------------------- C6
OrdinalSymbolStmts == {"query_dll_ordinal_symbol", "insert_dll_ordinal_symbol"}

\* the line read next has three fields with non-empty ordinal and name fields
NextHasNameAndOrdinal ==
    Len(NextFields) = 3 /\ Len(NextFields[2]) > 0 /\ Len(NextFields[3]) > 0

\* C6: a record whose name and ordinal fields are both non-empty is resolved
\* as a Named symbol keyed by the raw name: processing it runs no
\* ordinal-symbol statement, leaves the (filename -> ordinal -> id) cache and
\* the DllOrdinal rows as they are, resolves to a row whose raw_name is the
\* name field, and to the same sym_id as every earlier record of that name.
C6_NameTakesPriority ==
    [][ (ProcessesLine /\ NextHasNameAndOrdinal) =>
          LET r == resolved'[Len(resolved')] IN
          /\ cache'.symbol_dll_to_ordinal_to_id = cache.symbol_dll_to_ordinal_to_id
          /\ \A k \in 1..Len(r.log) : r.log[k].stmt \notin OrdinalSymbolStmts
          /\ {x \in Unwrap(txn').symbols : IsSome(x.dll_name)}
                = {x \in Unwrap(txn).symbols : IsSome(x.dll_name)}
          /\ r.panic = "" =>
               /\ \E x \in Unwrap(txn').symbols :
                    /\ x.sym_id = r.sym_id
                    /\ x.raw_name = Some(NextFields[3])
                    /\ x.dll_name = None /\ x.ordinal = None
               /\ \A k \in 1..Len(resolved) :
                    ( /\ Completed(k)
                      /\ resolved[k].rec.symbol_name_opt = Some(NextFields[3]) )
                    => resolved[k].sym_id = r.sym_id
      ]_vars

\* two records with name and ordinal, same name, different ordinals and
\* DLLs, resolved to one symbol without any entry in the ordinal cache
C6_Witness ==
    /\ pc = "done"
    /\ cache.symbol_dll_to_ordinal_to_id = EmptyMap
    /\ \E i, j \in 1..Len(resolved) :
        /\ IsSome(resolved[i].rec.symbol_name_opt) /\ IsSome(resolved[i].rec.ordinal_opt)
        /\ IsSome(resolved[j].rec.ordinal_opt)
        /\ resolved[i].rec.symbol_name_opt = resolved[j].rec.symbol_name_opt
        /\ resolved[i].rec.ordinal_opt # resolved[j].rec.ordinal_opt
        /\ resolved[i].dll_id # resolved[j].dll_id
        /\ resolved[i].sym_id = resolved[j].sym_id

\* ------------------------------------------------------------------- C7
\* the line read next is a well-formed record but for its empty ordinal and
\* name fields
NextHasNeither ==
    /\ Len(NextFields) = 3
    /\ Len(NextFields[2]) = 0 /\ Len(NextFields[3]) = 0
    /\ from_str(NextFields[1]).ok
    /\ Len(from_str(NextFields[1]).val) = 1
    /\ \E k \in 1..Len(from_str(NextFields[1]).val[1]) :
          from_str(NextFields[1]).val[1][k] \in {BS, SL}

\* C7: a record with empty name and empty ordinal panics the run at that
\* record: no symbol row and no relationship row is created for it, and a
\* run that panicked ends without committing.
C7_NeitherNameNorOrdinalIsFatal ==
    [][ /\ (ProcessesLine /\ NextHasNeither) =>
             /\ pc' = "panicked"
             /\ resolved'[Len(resolved')].sym_id = 0
             /\ Unwrap(txn').symbols = Unwrap(txn).symbols
             /\ Unwrap(txn').symbol_dll_os = Unwrap(txn).symbol_dll_os
             /\ db' = db
        /\ pc = "panicked" => (pc' = "aborted" /\ db' = db)
      ]_vars

\* a run aborted by such a record after an earlier record had inserted rows
C7_Witness ==
    /\ pc = "aborted"
    /\ panic = "symbol with neither name nor ordinal"
    /\ Len(resolved) = 2 /\ Inserted(1)
    /\ resolved[2].sym_id = 0
    /\ db = pre

\* ------------------------------------------------------------------- C8
\* record i, whose normalized path is p, resolved to the rows of p's parts,
\* as did every record of the same normalized path
ResolvedByPath(i, p) ==
    /\ \E o \in Tables.operating_systems :
         /\ o.os_id = resolved[i].os_id
         /\ o.short_name = BeforeFirstBackslash(p)
    /\ \E d \in Tables.dlls :
         /\ d.dll_id = resolved[i].dll_id
         /\ d.path = AfterFirstBackslash(p)
    /\ \A j \in 1..Len(resolved) :
         (Completed(j) /\ p = NormalizedPath(j)) =>
             /\ resolved[i].os_id = resolved[j].os_id
             /\ resolved[i].dll_id = resolved[j].dll_id

\* C8: records whose paths are equal after lower-casing and replacing '/' by
\* '\' resolve to the same os_id and the same dll_id; the operating_systems
\* row holds the lower-cased first segment as short_name and the dlls row
\* the lower-cased, backslash-joined remainder as path.
C8_CaseAndSeparatorNormalized ==
    \A i \in 1..Len(resolved) :
        Completed(i) => ResolvedByPath(i, NormalizedPath(i))

\* two records whose paths differ as written (W/F and w\f) and resolved to
\* the same operating system and DLL
C8_Witness ==
    \E i, j \in 1..Len(resolved) :
        /\ Completed(i) /\ Completed(j)
        /\ resolved[i].rec.dll_path # resolved[j].rec.dll_path
        /\ resolved[i].rec.dll_path # NormalizedPath(i)
        /\ NormalizedPath(i) = NormalizedPath(j)
        /\ resolved[i].os_id = resolved[j].os_id
        /\ resolved[i].dll_id = resolved[j].dll_id

\* ------------------------------------------------------------------- C9
Records == {resolved[i].rec : i \in 1..Len(resolved)}

\* C9: after a committed run on a fresh store, operating_systems has one row
\* per distinct normalized first segment, dlls one per distinct normalized
\* DLL-relative path, symbols one per distinct raw name plus one per distinct
\* (bare filename, ordinal) of the ordinal-only records, and symbol_dll_os
\* one row per distinct resolved (sym_id, dll_id, os_id, ordinal).
C9_ReferenceResult ==
    (pc = "done" /\ run = 1 /\ ~db0.schema_version_exists) =>
        /\ Cardinality(db.tables.operating_systems)
             = Cardinality({BeforeFirstBackslash(LowerBackslash(r.dll_path)) : r \in Records})
        /\ Cardinality(db.tables.dlls)
             = Cardinality({AfterFirstBackslash(LowerBackslash(r.dll_path)) : r \in Records})
        /\ Cardinality(db.tables.symbols)
             = Cardinality({r.symbol_name_opt :
                               r \in {x \in Records : IsSome(x.symbol_name_opt)}})
               + Cardinality({<<AfterLastBackslash(LowerBackslash(r.dll_path)), r.ordinal_opt>> :
                               r \in {x \in Records : ~IsSome(x.symbol_name_opt)}})
        /\ Len(db.tables.symbol_dll_os)
             = Cardinality({Fact(i) : i \in 1..Len(resolved)})

\* ------------------------------------------------------------------ C10
\* C10: in a run on a store whose schema version is <= 0 the transaction is
\* never opened, the input file is never opened, no record is processed and
\* the store is not written: the run panics in the Schema Gate.
C10_CorruptVersionRejectedFirst ==
    (run >= 1 /\ pre.schema_version_exists /\ pre.ver <= 0) =>
        /\ pc \in {"panicked", "aborted"}
        /\ panic = "database has invalid schema version"
        /\ txn = None
        /\ ~reader.open
        /\ resolved = << >>
        /\ db = pre

\* a run on a store of version 0 or -1, with a non-empty input, that ended
\* in the Schema Gate
C10_Witness ==
    /\ pc = "aborted"
    /\ run >= 1
    /\ pre.schema_version_exists /\ pre.ver <= 0
    /\ Len(file) > 0
    /\ txn = None /\ resolved = << >>

\* ------------------------------------------------------------------ C11
\* the schema version the gate of the current run read: the stored one, or
\* the one the baseline schema writes into a fresh store
VersionAtStartup ==
    IF pre.schema_version_exists THEN pre.ver ELSE BASELINE_SCHEMA_VERSION

\* number of notifications of one kind the current run wrote
Notifications(kind) ==
    Cardinality({k \in 1..Len(stderr) : stderr[k].kind = kind})

SchemaPanic == "database has invalid schema version"

\* C11: in every run the 1->2 migration is applied once if the version read
\* at startup is 1 and not at all otherwise; a store of any version >= 2
\* keeps its schema and version, and in both cases the run goes on to
\* ingestion instead of stopping in the Schema Gate.
C11_MigrationExactlyFromVersionOne ==
    run >= 1 =>
        /\ Notifications("update") = (IF VersionAtStartup = 1 THEN 1 ELSE 0)
        /\ (pre.schema_version_exists /\ pre.ver >= 2) =>
               (db.ver = pre.ver /\ db.schema = pre.schema)
        /\ VersionAtStartup >= 1 =>
               (pc \notin {"idle"} /\ panic # SchemaPanic)

\* a store of version 1 that was migrated by a run which then ingested and
\* committed a record
C11_Witness ==
    /\ pc = "done"
    /\ pre.schema_version_exists /\ pre.ver = 1 /\ pre.schema = "r0001"
    /\ db.ver = 2 /\ db.schema = "r0002"
    /\ Notifications("update") = 1
    /\ Len(resolved) >= 1

\* ------------------------------------------------------------------ C12
\* the records of an input file: its lines without their line ends, the
\* blank ones left out
RECURSIVE NonBlank(_)
NonBlank(lines) ==
    IF Len(lines) = 0 THEN << >>
    ELSE (IF Len(StripNewlines(Head(lines))) = 0 THEN << >>
          ELSE <<StripNewlines(Head(lines))>>) \o NonBlank(Tail(lines))

RecordLines(f) == NonBlank(split(f, NL))

\* what ingesting a list of records into the tables t makes of them: the
\* tables after the last record, or the panic of the first record that fails
RECURSIVE IngestRecords(_, _, _, _)
IngestNext(out, feature, rest) ==
    IF out.panic # "" THEN [panic |-> out.panic, t |-> out.t]
    ELSE IngestRecords(out.t, out.c, feature, rest)

IngestRecords(t, c, feature, lines) ==
    IF Len(lines) = 0 THEN [panic |-> "", t |-> t]
    ELSE IngestNext(ProcessLine(t, c, feature, Head(lines)), feature, Tail(lines))

\* the current run ended as ingesting the records `lines` into the rows the
\* store had before the run ends: with the same panic, or committed with the
\* same rows
EndsAs(ref) ==
    /\ pc = "aborted" => panic = ref.panic
    /\ pc = "done" => (ref.panic = "" /\ db.tables = ref.t)

\* C12: a run on a store of a schema version above MAX_SUPPORTED_SCHEMA writes
\* one warning (a store of version 2 none), applies no migration, leaves
\* schema and version as they are and does not stop in the Schema Gate; it
\* reads the whole input and ends as the ingestion of the same input into
\* the same rows does whatever the version, which is also how a run on a
\* store of version 2 ends.
C12_NewerVersionWarnedAndIngested ==
    (run >= 1 /\ pre.schema_version_exists /\ pre.ver >= MAX_SUPPORTED_SCHEMA) =>
        /\ Notifications("warning")
              = (IF pre.ver > MAX_SUPPORTED_SCHEMA THEN 1 ELSE 0)
        /\ Notifications("update") = 0
        /\ db.ver = pre.ver /\ db.schema = pre.schema
        /\ panic # SchemaPanic
        /\ pc = "done" => reader.pos = Len(file)
        /\ pc \in {"done", "aborted"} =>
               EndsAs(IngestRecords(pre.tables, EmptyCache, ms_cpp_filt,
                                    RecordLines(file)))

\* a committed run on a store of version 3 that warned and inserted rows
C12_Witness ==
    /\ pc = "done"
    /\ pre.schema_version_exists /\ pre.ver > MAX_SUPPORTED_SCHEMA
    /\ Notifications("warning") = 1
    /\ Len(resolved) = 2 /\ Inserted(1) /\ Inserted(2)
    /\ db.tables # pre.tables

\* ------------------------------------------------------------------ C13
\* C13: the step through the Schema Gate applies the baseline schema exactly
\* when the store has no schema_version table, and before it reads the
\* version: a fresh store leaves the gate with the baseline schema, its
\* version row and empty tables, and the version the gate judges is that
\* row's; a store that has the table leaves the gate with the schema it had
\* or the migrated one, and with all its rows.
C13_BaselineOnlyOnFreshStore ==
    [][ (run' = run + 1) =>
          /\ ~db.schema_version_exists =>
                /\ db' = ApplyBaselineSchema(db)
                /\ pc' = (IF BASELINE_SCHEMA_VERSION <= 0 THEN "panicked" ELSE "gated")
                /\ Notifications("update")'
                      = (IF BASELINE_SCHEMA_VERSION = 1 THEN 1 ELSE 0)
          /\ db.schema_version_exists =>
                /\ db'.schema_version_exists
                /\ db'.tables = db.tables
                /\ db'.schema = (IF db.ver = 1 THEN "r0002" ELSE db.schema)
                /\ (pc' = "panicked") <=> (db.ver <= 0)
      ]_vars

\* a second run on the store a first run made from nothing: the first gate
\* applied the baseline schema, the second found the table and kept the rows
C13_Witness ==
    /\ run = 2 /\ pc = "gated"
    /\ ~db0.schema_version_exists
    /\ pre.schema_version_exists /\ pre.ver = BASELINE_SCHEMA_VERSION
    /\ Cardinality(pre.tables.symbols) >= 2
    /\ db = pre

\* ------------------------------------------------------------------ C14
\* C14: a transaction is opened only by the step that follows the Schema
\* Gate, once per run; every record is processed inside it and leaves the
\* committed store alone; the committed rows change only in the one step
\* that commits it, which is taken with the input read to its end and makes
\* the rows of the transaction the committed ones; a transaction ends only by
\* that commit or by the unwinding of a panic.
C14_SingleTransaction ==
    [][ /\ (~IsSome(txn) /\ IsSome(txn')) =>
              (pc = "gated" /\ pc' = "loop" /\ Unwrap(txn') = db.tables /\ run' = run)
        /\ pc' = "gated" => (run' = run + 1 /\ ~IsSome(txn'))
        /\ Len(resolved') > Len(resolved) =>
              (IsSome(txn) /\ IsSome(txn') /\ db' = db)
        /\ (IsSome(txn) /\ IsSome(txn')) => db' = db
        /\ db'.tables # db.tables =>
              /\ pc = "eof" /\ pc' = "done"
              /\ reader.pos = Len(file)
              /\ IsSome(txn) /\ db'.tables = Unwrap(txn) /\ ~IsSome(txn')
        /\ (IsSome(txn) /\ ~IsSome(txn')) =>
              \/ pc = "eof" /\ pc' = "done" /\ db'.tables = Unwrap(txn)
              \/ pc = "panicked" /\ pc' = "aborted" /\ db' = db
        /\ pc' = "eof" => (pc = "loop" /\ reader.pos = Len(file))
        /\ pc = "done" => (run' = run + 1)
      ]_vars

\* a committed run of two records that both inserted rows
C14_Witness ==
    /\ pc = "done"
    /\ Len(resolved) = 2 /\ Inserted(1) /\ Inserted(2)
    /\ ~IsSome(txn)
    /\ db.tables # pre.tables
    /\ reader.pos = Len(file)

\* ------------------------------------------------------------------ C15
\* the line the next loop iteration reads is not blank
NextNonBlank == Len(StripNewlines(read_line(file, reader.pos))) > 0

\* a field that is not a decimal unsigned integer: it has a character other
\* than a digit (the plus sign Rust's integer parser lets precede the digits
\* is not counted), or no digit at all
NotDecimal(field) ==
    \/ \E k \in 1..Len(field) :
          /\ field[k] \notin {"0", "1", "2", "3", "4", "5", "6", "7", "8", "9"}
          /\ ~(k = 1 /\ field[k] = "+")
    \/ field = <<"+">>

\* the line read next has a malformed field structure
NextMalformed ==
    \/ Len(NextFields) # 3
    \/ ~from_str(NextFields[1]).ok
    \/ Len(from_str(NextFields[1]).val) # 1
    \/ (Len(NextFields[2]) > 0 /\ NotDecimal(NextFields[2]))

ParsePanics ==
    {"line does not have 3 fields", "failed to parse field 0 as JSON",
     "expected a single-part file path", "failed to parse ordinal"}

\* C15: a non-blank line that has not exactly 3 tab-separated fields, or
\* whose field 0 is not a JSON array of exactly one string, or whose
\* non-empty field 1 is not a decimal unsigned integer, panics the run at
\* that line before any statement is executed for it; a panicked run
\* processes no further line and ends without committing, and only a new
\* run can follow it.
C15_MalformedRecordIsFatal ==
    [][ /\ (pc = "loop" /\ NextNonBlank /\ NextMalformed) =>
              /\ pc' = "panicked"
              /\ panic' \in ParsePanics
              /\ Len(resolved') = Len(resolved) + 1
              /\ resolved'[Len(resolved')].log = << >>
              /\ txn' = txn /\ cache' = cache /\ db' = db
        /\ pc = "panicked" =>
              /\ pc' = "aborted"
              /\ resolved' = resolved /\ reader'.pos = reader.pos
              /\ ~IsSome(txn') /\ db' = db
        /\ pc = "aborted" => (run' = run + 1 /\ resolved' = << >>)
      ]_vars

\* a run aborted at its first line, whose ordinal field is not a number,
\* with a well-formed line after it left unread
C15_Witness ==
    /\ pc = "aborted"
    /\ panic = "failed to parse ordinal"
    /\ Len(resolved) = 1
    /\ reader.pos < Len(file)
    /\ ParseLine(StripNewlines(read_line(file, reader.pos))).err = ""
    /\ db.tables = pre.tables

\* ------------------------------------------------------------------ C16
\* the next loop iteration reads a line that is empty once its trailing
\* '\r' and '\n' are stripped
NextBlank ==
    /\ Len(read_line(file, reader.pos)) > 0
    /\ \A k \in 1..Len(read_line(file, reader.pos)) :
          read_line(file, reader.pos)[k] \in {CR, NL}

\* C16: reading a blank line raises no error, executes no statement and
\* leaves the transaction's tables, the caches and the committed store as
\* they are; the loop goes on behind the line.  A committed run leaves the
\* rows that ingesting the input's non-blank lines, in their order, into
\* the rows of before the run leaves.
C16_BlankLinesSkipped ==
    [][ /\ (pc = "loop" /\ NextBlank) =>
              /\ pc' = "loop" /\ panic' = panic
              /\ txn' = txn /\ cache' = cache /\ db' = db
              /\ resolved' = resolved
              /\ reader'.pos = reader.pos + Len(read_line(file, reader.pos))
        /\ (pc = "eof" /\ pc' = "done") =>
              /\ Len(resolved') = Len(RecordLines(file))
              /\ db'.tables = IngestRecords(pre.tables, EmptyCache, ms_cpp_filt,
                                            RecordLines(file)).t
      ]_vars

\* a committed run over a blank line followed by a record that inserted rows
C16_Witness ==
    /\ pc = "done"
    /\ read_line(file, 0) = <<CR, NL>>
    /\ Len(file) > 2
    /\ Len(resolved) = 1 /\ Inserted(1)
    /\ db.tables # pre.tables

\* ------------------------------------------------------------------ C17
\* number of backslash-separated segments of a path
Segments(s) == Cardinality({k \in 1..Len(s) : s[k] = BS}) + 1

\* the keys of the statements of the given names that record i executed
KeysOf(i, stmts) ==
    {resolved[i].log[k].key :
        k \in {x \in 1..Len(resolved[i].log) : resolved[i].log[x].stmt \in stmts}}

\* record i, processed to its end, was looked up and stored under these
\* three parts of its path
SplitInto(i, os, rel, bare) ==
    /\ KeysOf(i, {"query_os", "insert_os"}) \subseteq {os}
    /\ KeysOf(i, {"query_dll", "insert_dll"}) \subseteq {rel}
    /\ KeysOf(i, OrdinalSymbolStmts)
          \subseteq {<<bare, resolved[i].rec.ordinal_opt[k]>> :
                         k \in 1..Len(resolved[i].rec.ordinal_opt)}
    /\ \E o \in Tables.operating_systems :
          o.os_id = resolved[i].os_id /\ o.short_name = os
    /\ \E d \in Tables.dlls :
          d.dll_id = resolved[i].dll_id /\ d.path = rel
    /\ \E y \in Tables.symbols :
          /\ y.sym_id = resolved[i].sym_id
          /\ y.dll_name = (IF OrdinalOnly(i) THEN Some(bare) ELSE None)

\* record i, whose normalized path is p, was treated as its segments demand
SplitAsSegments(i, p, n) ==
    /\ (n < 2) <=> (resolved[i].panic = "expected at least two path pieces")
    /\ n < 2 => resolved[i].log = << >>
    /\ Completed(i) =>
          /\ SplitInto(i, BeforeFirstBackslash(p), AfterFirstBackslash(p),
                       AfterLastBackslash(p))
          /\ n = 2 => AfterFirstBackslash(p) = AfterLastBackslash(p)

\* C17: a parsed record whose normalized path has fewer than 2 segments
\* panics before any statement is executed, one with 2 or more does not
\* panic for its path.  For a record processed to its end, the operating
\* system is looked up and stored under segment 0, the DLL under the
\* backslash-join of the segments after it, and the last segment alone is
\* the dll_name of the symbol of an ordinal-only record and of no other
\* symbol; with 2 segments the DLL's path is that last segment.
C17_PathSplit ==
    \A i \in 1..Len(resolved) :
        resolved[i].rec.err = "" =>
            SplitAsSegments(i, NormalizedPath(i), Segments(NormalizedPath(i)))

\* an ordinal-only record of a path of 3 segments, processed to its end:
\* its DLL is stored under the last two segments, its symbol under the last
C17_Witness ==
    \E i \in 1..Len(resolved) :
        /\ Completed(i) /\ OrdinalOnly(i) /\ Inserted(i)
        /\ Segments(NormalizedPath(i)) = 3
        /\ \E d \in Tables.dlls :
              /\ d.dll_id = resolved[i].dll_id
              /\ d.path # AfterLastBackslash(NormalizedPath(i))
        /\ \E y \in Tables.symbols :
              /\ y.sym_id = resolved[i].sym_id
              /\ y.dll_name = Some(AfterLastBackslash(NormalizedPath(i)))

\* ------------------------------------------------------------------ C18
\* every row of the tables a is a row of the tables b, with the same
\* identifier and column values; the rows of symbol_dll_os, which has no
\* identifier, are those b starts with
RowsKept(a, b) ==
    /\ a.operating_systems \subseteq b.operating_systems
    /\ a.dlls \subseteq b.dlls
    /\ a.symbols \subseteq b.symbols
    /\ Len(a.symbol_dll_os) <= Len(b.symbol_dll_os)
    /\ SubSeq(b.symbol_dll_os, 1, Len(a.symbol_dll_os)) = a.symbol_dll_os

\* C18: over any sequence of runs, committed or aborted, every row the store
\* had before the first run is in the store before each later run, every row
\* the store had before a run is in the committed store during and after it,
\* and in the tables the run's transaction sees: rows are only added.
C18_RowsOnlyAdded ==
    /\ RowsKept(db0.tables, pre.tables)
    /\ RowsKept(pre.tables, db.tables)
    /\ RowsKept(db.tables, Tables)

\* a run committed on a store that had rows: it added a symbol and a
\* relationship, and the rows of before are still there
C18_Witness ==
    /\ pc = "done"
    /\ pre.tables = LoadedTables
    /\ Cardinality(db.tables.symbols) > Cardinality(pre.tables.symbols)
    /\ Len(db.tables.symbol_dll_os) > Len(pre.tables.symbol_dll_os)
    /\ RowsKept(LoadedTables, db.tables)

\* ------------------------------------------------------------------ C19
IsNamed(y) == IsSome(y.raw_name) /\ ~IsSome(y.dll_name) /\ ~IsSome(y.ordinal)
IsDllOrdinal(y) == ~IsSome(y.raw_name) /\ IsSome(y.dll_name) /\ IsSome(y.ordinal)

\* C19: every symbols row, committed or written in the open transaction, is
\* either Named (raw_name set, dll_name and ordinal NULL) or DllOrdinal
\* (raw_name NULL, dll_name and ordinal set), never both and never neither;
\* the row a record resolves to is Named exactly when the record has a name.
C19_SymbolVariantInvariant ==
    /\ \A y \in Tables.symbols : IsNamed(y) # IsDllOrdinal(y)
    /\ \A y \in db.tables.symbols : IsNamed(y) # IsDllOrdinal(y)
    /\ \A i \in 1..Len(resolved) :
          Completed(i) =>
              \E y \in Tables.symbols :
                  /\ y.sym_id = resolved[i].sym_id
                  /\ IsNamed(y) <=> IsSome(resolved[i].rec.symbol_name_opt)
                  /\ IsDllOrdinal(y) <=> ~IsSome(resolved[i].rec.symbol_name_opt)

\* a run on a fresh store that created a Named and a DllOrdinal symbol, the
\* Named one from a record that also had an ordinal
C19_Witness ==
    /\ pc = "done"
    /\ ~pre.schema_version_exists
    /\ \E y \in db.tables.symbols : IsDllOrdinal(y)
    /\ \E i \in 1..Len(resolved) :
          /\ IsSome(resolved[i].rec.symbol_name_opt)
          /\ IsSome(resolved[i].rec.ordinal_opt)
          /\ \E y \in db.tables.symbols :
                y.sym_id = resolved[i].sym_id /\ IsNamed(y)

\* ------------------------------------------------------------------ C20
\* no two rows of a table of t share a natural key
UniqueKeys(t) ==
    /\ \A a, b \in t.operating_systems : a.short_name = b.short_name => a = b
    /\ \A a, b \in t.dlls : a.path = b.path => a = b
    /\ \A a, b \in t.symbols :
          (IsSome(a.raw_name) /\ a.raw_name = b.raw_name) => a = b
    /\ \A a, b \in t.symbols :
          ( /\ IsSome(a.dll_name) /\ IsSome(a.ordinal)
            /\ a.dll_name = b.dll_name /\ a.ordinal = b.ordinal ) => a = b

\* the cache c has, the tables t hold, the natural key of an insert statement
CacheHas(c, s) ==
    \/ s.stmt = "insert_os" /\ s.key \in DOMAIN c.op_sys_to_id
    \/ s.stmt = "insert_dll" /\ s.key \in DOMAIN c.dll_to_id
    \/ s.stmt = "insert_named_symbol" /\ s.key \in DOMAIN c.symbol_name_to_id
    \/ /\ s.stmt = "insert_dll_ordinal_symbol"
       /\ s.key[1] \in DOMAIN c.symbol_dll_to_ordinal_to_id
       /\ s.key[2] \in DOMAIN c.symbol_dll_to_ordinal_to_id[s.key[1]]

StoreHas(t, s) ==
    \/ s.stmt = "insert_os" /\ \E r \in t.operating_systems : r.short_name = s.key
    \/ s.stmt = "insert_dll" /\ \E r \in t.dlls : r.path = s.key
    \/ s.stmt = "insert_named_symbol" /\ \E r \in t.symbols : r.raw_name = Some(s.key)
    \/ /\ s.stmt = "insert_dll_ordinal_symbol"
       /\ \E r \in t.symbols :
             r.dll_name = Some(s.key[1]) /\ r.ordinal = Some(s.key[2])

\* the lookup statement of each entity insert statement
QueryOf(stmt) ==
    CASE stmt = "insert_os" -> "query_os"
      [] stmt = "insert_dll" -> "query_dll"
      [] stmt = "insert_named_symbol" -> "query_named_symbol"
      [] stmt = "insert_dll_ordinal_symbol" -> "query_dll_ordinal_symbol"

EntityInsertStmts == InsertStmts \ {"insert_relationship"}

\* C20: in every state, in the committed store and in the tables of the open
\* transaction, no two operating_systems rows share a short_name, no two dlls
\* rows a path, no two Named symbols a raw_name and no two DllOrdinal symbols
\* a (dll_name, ordinal); and every entity insert a record executes is for a
\* key that the cache did not have and the store did not hold when the
\* record was read, and comes after the store lookup for that key.
C20_NaturalKeysUnique ==
    [][ /\ UniqueKeys(db.tables) /\ UniqueKeys(Tables)
        /\ UniqueKeys(db'.tables) /\ UniqueKeys(Tables')
        /\ ProcessesLine =>
              \A k \in 1..Len(resolved'[Len(resolved')].log) :
                 resolved'[Len(resolved')].log[k].stmt \in EntityInsertStmts =>
                    /\ ~CacheHas(cache, resolved'[Len(resolved')].log[k])
                    /\ ~StoreHas(Unwrap(txn), resolved'[Len(resolved')].log[k])
                    /\ \E j \in 1..(k-1) :
                          resolved'[Len(resolved')].log[j]
                             = Stmt(QueryOf(resolved'[Len(resolved')].log[k].stmt),
                                    resolved'[Len(resolved')].log[k].key)
      ]_vars

HasStmt(i, stmt) ==
    \E k \in 1..Len(resolved[i].log) : resolved[i].log[k].stmt = stmt

\* a run on a store that had rows: its first record found its operating
\* system by the store lookup and inserted none, its second found it in the
\* cache and inserted a DLL the store did not hold
C20_Witness ==
    /\ pc = "done"
    /\ pre.tables = LoadedTables
    /\ Len(resolved) = 2
    /\ HasStmt(1, "query_os") /\ ~HasStmt(1, "insert_os")
    /\ ~HasStmt(2, "query_os") /\ ~HasStmt(2, "insert_os")
    /\ HasStmt(2, "query_dll") /\ HasStmt(2, "insert_dll")
    /\ UniqueKeys(db.tables)
    /\ Cardinality(db.tables.dlls) = 2

\* ------------------------------------------------------------------ C21
IsPermille(e) == e.kind = "permille"

\* the per-mille values emitted so far in the run, in their order
Emitted(log) ==
    [k \in 1..Len(SelectSeq(log, IsPermille)) |-> SelectSeq(log, IsPermille)[k].val]

LastEmitted(vals) == IF Len(vals) = 0 THEN 0 ELSE vals[Len(vals)]

StrictlyIncreasing(vals) == \A k \in 1..(Len(vals) - 1) : vals[k] < vals[k + 1]

\* the step reads a line
ReadsLine == pc = "loop" /\ reader'.pos > reader.pos

\* what the notifications become when the bytes up to consumed have been read
EmittedAfter(before, after, consumed) ==
    IF (consumed * 1000) \div Len(file) > LastEmitted(before)
    THEN after = Append(before, (consumed * 1000) \div Len(file))
    ELSE after = before

\* C21: over any run the emitted per-mille values are strictly increasing and
\* at most 1000 in number; the step that reads a line emits
\* floor(bytes_consumed * 1000 / file_length) exactly when that value exceeds
\* the last emitted value (0 when none was emitted), and no other step of the
\* run emits a per-mille value.
C21_ProgressNotifications ==
    [][ /\ StrictlyIncreasing(Emitted(stderr'))
        /\ Len(Emitted(stderr')) <= 1000
        /\ IF ReadsLine
           THEN EmittedAfter(Emitted(stderr), Emitted(stderr'), reader'.pos)
           ELSE Emitted(stderr') \in {Emitted(stderr), << >>} ]_vars

\* a committed run that read more lines than it emitted notifications: the
\* line of one byte behind the long record did not move the value
C21_Witness ==
    /\ pc = "done"
    /\ Len(file) > 1000
    /\ Len(Emitted(stderr)) >= 2
    /\ Len(Emitted(stderr)) < Cardinality({k \in 1..Len(file) : file[k] = NL})

\* ------------------------------------------------------------------ C22
\* number of executions of statement stmt in a statement log
Executions(log, stmt) == Cardinality({k \in 1..Len(log) : log[k].stmt = stmt})

\* the IDs a map of the cache holds for a key (none or one)
CachedIds(m, key) == IF key \in DOMAIN m THEN {m[key]} ELSE {}

CachedOrdinalIds(m, name, ordinal) ==
    IF name \in DOMAIN m THEN CachedIds(m[name], ordinal) ELSE {}

\* One get-or-create step that resolved to id.  cached and stored are the IDs
\* the cache and the store held for the key before the step, ids all the IDs
\* of the table before the step, queries and inserts the numbers of lookups
\* and inserts executed, added the IDs of the rows the table gained,
\* addedKeyed those of them that carry the key, cachedAfter the IDs the cache
\* holds for the key after the step.
GetOrCreate(cached, stored, ids, queries, inserts, id, added, addedKeyed, cachedAfter) ==
    /\ cachedAfter = {id}
    /\ IF cached # {}
       THEN cached = {id} /\ queries = 0 /\ inserts = 0 /\ added = {}
       ELSE IF stored # {}
       THEN id \in stored /\ queries = 1 /\ inserts = 0 /\ added = {}
       ELSE /\ queries = 1 /\ inserts = 1
            /\ added = {id} /\ addedKeyed = {id} /\ id \notin ids

OsGetOrCreate(e, t, t2, key) ==
    GetOrCreate(CachedIds(cache.op_sys_to_id, key),
                {r.os_id : r \in {x \in t.operating_systems : x.short_name = key}},
                {r.os_id : r \in t.operating_systems},
                Executions(e.log, "query_os"), Executions(e.log, "insert_os"), e.os_id,
                {r.os_id : r \in t2.operating_systems \ t.operating_systems},
                {r.os_id : r \in {x \in t2.operating_systems \ t.operating_systems :
                                      x.short_name = key}},
                CachedIds(cache'.op_sys_to_id, key))

DllGetOrCreate(e, t, t2, key) ==
    GetOrCreate(CachedIds(cache.dll_to_id, key),
                {r.dll_id : r \in {x \in t.dlls : x.path = key}},
                {r.dll_id : r \in t.dlls},
                Executions(e.log, "query_dll"), Executions(e.log, "insert_dll"), e.dll_id,
                {r.dll_id : r \in t2.dlls \ t.dlls},
                {r.dll_id : r \in {x \in t2.dlls \ t.dlls : x.path = key}},
                CachedIds(cache'.dll_to_id, key))

NamedGetOrCreate(e, t, t2, key) ==
    GetOrCreate(CachedIds(cache.symbol_name_to_id, key),
                {r.sym_id : r \in {x \in t.symbols : x.raw_name = Some(key)}},
                {r.sym_id : r \in t.symbols},
                Executions(e.log, "query_named_symbol"),
                Executions(e.log, "insert_named_symbol"), e.sym_id,
                {r.sym_id : r \in t2.symbols \ t.symbols},
                {r.sym_id : r \in {x \in t2.symbols \ t.symbols : x.raw_name = Some(key)}},
                CachedIds(cache'.symbol_name_to_id, key))

OrdinalGetOrCreate(e, t, t2, name, ordinal) ==
    GetOrCreate(CachedOrdinalIds(cache.symbol_dll_to_ordinal_to_id, name, ordinal),
                {r.sym_id : r \in {x \in t.symbols :
                                      x.dll_name = Some(name) /\ x.ordinal = Some(ordinal)}},
                {r.sym_id : r \in t.symbols},
                Executions(e.log, "query_dll_ordinal_symbol"),
                Executions(e.log, "insert_dll_ordinal_symbol"), e.sym_id,
                {r.sym_id : r \in t2.symbols \ t.symbols},
                {r.sym_id : r \in {x \in t2.symbols \ t.symbols :
                                      x.dll_name = Some(name) /\ x.ordinal = Some(ordinal)}},
                CachedOrdinalIds(cache'.symbol_dll_to_ordinal_to_id, name, ordinal))

\* the get-or-create steps of the record e whose normalized path is path, on
\* the tables t, which it leaves as t2
GetOrCreateSteps(e, t, t2, path) ==
    /\ e.os_id # 0 => OsGetOrCreate(e, t, t2, BeforeFirstBackslash(path))
    /\ e.dll_id # 0 => DllGetOrCreate(e, t, t2, AfterFirstBackslash(path))
    /\ (e.sym_id # 0 /\ IsSome(e.rec.symbol_name_opt)) =>
          NamedGetOrCreate(e, t, t2, e.rec.symbol_name_opt[1])
    /\ (e.sym_id # 0 /\ ~IsSome(e.rec.symbol_name_opt)) =>
          OrdinalGetOrCreate(e, t, t2, AfterLastBackslash(path), e.rec.ordinal_opt[1])

\* C22: each step that resolves an OperatingSystem, a Dll, a Named symbol or
\* a DllOrdinal symbol of a record returns the cached ID and executes no
\* statement when the cache has the key; otherwise it executes one lookup,
\* and returns the ID of the existing row without inserting when the store
\* has the key, or executes one insert that adds exactly one row with that
\* key and returns its new ID; when the record is done the cache maps the
\* key to the resolved ID.
C22_GetOrCreate ==
    [][ ProcessesLine =>
            GetOrCreateSteps(resolved'[Len(resolved')], Unwrap(txn), Unwrap(txn'),
                             LowerBackslash(resolved'[Len(resolved')].rec.dll_path)) ]_vars

\* a run on a store that had rows: its first record found its named symbol
\* by the store lookup, its second record found the same symbol in the
\* cache and created a DLL
C22_Witness ==
    /\ pc = "done"
    /\ pre.tables = LoadedTables
    /\ Len(resolved) = 2
    /\ HasStmt(1, "query_named_symbol") /\ ~HasStmt(1, "insert_named_symbol")
    /\ ~HasStmt(2, "query_named_symbol") /\ ~HasStmt(2, "insert_named_symbol")
    /\ resolved[2].sym_id = resolved[1].sym_id
    /\ HasStmt(2, "insert_dll")

\* ------------------------------------------------------------------ C23
\* the raw names the demangler was called on while record i was processed
Demangled(log) ==
    {log[k].key : k \in {x \in 1..Len(log) : log[x].stmt = "try_demangle"}}

\* in the statement log of one record, on the tables t and the cache c: the
\* demangler is called for a name neither cached nor stored, directly before
\* the insert of that name, and every insert of a name follows such a call
DemangledOnCreation(log, t, c) ==
    /\ Executions(log, "try_demangle") <= 1
    /\ \A k \in 1..Len(log) :
          log[k].stmt = "try_demangle" =>
              /\ log[k].key \notin DOMAIN c.symbol_name_to_id
              /\ \A y \in t.symbols : y.raw_name # Some(log[k].key)
              /\ k < Len(log)
              /\ log[k + 1] = Stmt("insert_named_symbol", log[k].key)
    /\ \A k \in 1..Len(log) :
          log[k].stmt = "insert_named_symbol" =>
              k > 1 /\ log[k - 1] = Stmt("try_demangle", log[k].key)

\* C23: the demangler is called for a raw name exactly when a Named symbol
\* row is about to be inserted, that is after the cache and the store lookup
\* both missed: never for a raw name the store already holds, also when the
\* stored friendly_name is null, and at most once per raw name in a run; no
\* step changes or removes an existing symbols row.
C23_DemangledOnlyOnCreation ==
    [][ /\ ProcessesLine =>
              DemangledOnCreation(resolved'[Len(resolved')].log, Unwrap(txn), cache)
        /\ \A i, j \in 1..Len(resolved') :
              i < j => Demangled(resolved'[i].log) \cap Demangled(resolved'[j].log) = {}
        /\ db.tables.symbols \subseteq db'.tables.symbols
        /\ (IsSome(txn) /\ IsSome(txn')) =>
              Unwrap(txn).symbols \subseteq Unwrap(txn').symbols ]_vars

\* a committed run of the build with the demangler on a store that held the
\* name ?A with a null friendly name: the record naming ?A was resolved by
\* the store lookup without a call of the demangler and the row still has
\* no friendly name; another record created its symbol after such a call
C23_Witness ==
    /\ pc = "done"
    /\ ms_cpp_filt
    /\ pre.tables = LoadedTables
    /\ \E i \in 1..Len(resolved) :
          /\ resolved[i].rec.symbol_name_opt = Some(<<"?", "A">>)
          /\ HasStmt(i, "query_named_symbol") /\ ~HasStmt(i, "try_demangle")
    /\ \E y \in db.tables.symbols :
          y.raw_name = Some(<<"?", "A">>) /\ y.friendly_name = None
    /\ \E j \in 1..Len(resolved) : HasStmt(j, "try_demangle")

\* ------------------------------------------------------------------ C24
\* the rows the run has added to the tables it sees
NewOperatingSystems == Tables.operating_systems \ pre.tables.operating_systems
NewDlls == Tables.dlls \ pre.tables.dlls
NewSymbols == Tables.symbols \ pre.tables.symbols

\* the normalized paths of the records for which the run resolved an
\* operating system
NormalizedPaths ==
    {LowerBackslash(resolved[i].rec.dll_path) :
        i \in {x \in 1..Len(resolved) : resolved[x].os_id # 0}}

\* C24: every row the run inserted carries its natural key and defaults
\* only: an operating system has its short_name and a null long_name, a DLL
\* its path and secondary_platform false, a DllOrdinal symbol its dll_name
\* and ordinal with raw_name and friendly_name null, a Named symbol its
\* raw_name with dll_name and ordinal null and as friendly_name the
\* demangler's result for the raw name (null when the demangler fails or is
\* not built in).
C24_CreationPayload ==
    /\ \A o \in NewOperatingSystems :
          /\ o.long_name = None
          /\ o.short_name \in {BeforeFirstBackslash(p) : p \in NormalizedPaths}
    /\ \A d \in NewDlls :
          /\ d.secondary_platform = FALSE
          /\ d.path \in {AfterFirstBackslash(p) : p \in NormalizedPaths}
    /\ \A y \in NewSymbols :
          IF IsSome(y.raw_name)
          THEN /\ y.dll_name = None /\ y.ordinal = None
               /\ y.raw_name \in {r.symbol_name_opt : r \in Records}
               /\ y.friendly_name =
                      (IF ms_cpp_filt THEN demangle_cpp_name(y.raw_name[1]) ELSE None)
          ELSE /\ y.friendly_name = None
               /\ y.dll_name \in {Some(AfterLastBackslash(p)) : p \in NormalizedPaths}
               /\ y.ordinal \in {r.ordinal_opt : r \in Records} \ {None}

\* a committed run of the build with the demangler that created an
\* operating system, a DLL, a Named symbol with a friendly name and a
\* DllOrdinal symbol
C24_Witness ==
    /\ pc = "done"
    /\ NewOperatingSystems # {} /\ NewDlls # {}
    /\ \E y \in NewSymbols : IsSome(y.raw_name) /\ IsSome(y.friendly_name)
    /\ \E y \in NewSymbols : IsSome(y.dll_name) /\ IsSome(y.ordinal)

\* ------------------------------------------------------------------ C25
\* the ordinal a record's ordinal field shows: none when the field is empty,
\* else its number (the fields of the input files have no leading zeros)
ObservedOrdinal(field) ==
    IF Len(field) = 0 THEN None
    ELSE Some(IF field[1] = "+" THEN Tail(field) ELSE field)

\* the row a record with ordinal field `field`, resolved as e, produces in
\* the relationship rows `rows`, which become rows2
ProducesRow(e, field, rows, rows2) ==
    /\ rows2 \in {rows, Append(rows, [sym_id |-> e.sym_id, dll_id |-> e.dll_id,
                                      os_id |-> e.os_id,
                                      ordinal |-> ObservedOrdinal(field)])}
    /\ \E k \in 1..Len(rows2) :
          rows2[k] = [sym_id |-> e.sym_id, dll_id |-> e.dll_id, os_id |-> e.os_id,
                      ordinal |-> ObservedOrdinal(field)]

\* every relationship with a DllOrdinal symbol has that symbol's ordinal
OrdinalOfDllOrdinalSymbol(t) ==
    \A k \in 1..Len(t.symbol_dll_os) :
        \A y \in t.symbols :
            (y.sym_id = t.symbol_dll_os[k].sym_id /\ IsDllOrdinal(y))
                => t.symbol_dll_os[k].ordinal = y.ordinal

\* C25: the symbol_dll_os row a record produces has as ordinal the record's
\* ordinal field (null when the field is empty), whatever symbol the record
\* resolved to, and a record produces no other row; the relationship rows
\* of a DllOrdinal symbol have the symbol's own ordinal.
C25_OrdinalAsObserved ==
    [][ /\ (ProcessesLine /\ resolved'[Len(resolved')].panic = "") =>
              ProducesRow(resolved'[Len(resolved')], NextFields[2],
                          Unwrap(txn).symbol_dll_os, Unwrap(txn').symbol_dll_os)
        /\ (ProcessesLine /\ resolved'[Len(resolved')].panic # "") =>
              Unwrap(txn').symbol_dll_os = Unwrap(txn).symbol_dll_os
        /\ OrdinalOfDllOrdinalSymbol(Tables') ]_vars

\* a committed run on a fresh store that saw one Named symbol without
\* ordinal and with an ordinal on the same DLL and operating system: two
\* relationship rows with the same sym_id
C25_Witness ==
    /\ pc = "done"
    /\ ~db0.schema_version_exists /\ run = 1
    /\ Len(db.tables.symbol_dll_os) = 2
    /\ db.tables.symbol_dll_os[1].sym_id = db.tables.symbol_dll_os[2].sym_id
    /\ db.tables.symbol_dll_os[1].dll_id = db.tables.symbol_dll_os[2].dll_id
    /\ db.tables.symbol_dll_os[1].os_id = db.tables.symbol_dll_os[2].os_id
    /\ {db.tables.symbol_dll_os[1].ordinal, db.tables.symbol_dll_os[2].ordinal}
          = {None, Some(<<"5">>)}
    /\ \E y \in db.tables.symbols :
          y.sym_id = db.tables.symbol_dll_os[1].sym_id /\ IsNamed(y)

\* ------------------------------------------------------------------ C26
\* the symbols row of the record resolved as e carries the name field as it
\* stands in the line, or, for a record without name, the lower-cased last
\* segment of the path
KeyedAsEncountered(e, name, syms) ==
    \E y \in syms :
        /\ y.sym_id = e.sym_id
        /\ IF Len(name) > 0
           THEN y.raw_name = Some(name)
           ELSE /\ y.raw_name = None
                /\ y.dll_name = Some(AfterLastBackslash(LowerBackslash(e.rec.dll_path)))

\* two resolved records share their symbol exactly when they agree on the
\* name as written or, both without name, on the lower-cased bare filename
\* and the ordinal
SameSymbolIffSameKey(a, b) ==
    IF IsSome(a.rec.symbol_name_opt) /\ IsSome(b.rec.symbol_name_opt)
    THEN (a.sym_id = b.sym_id) <=> (a.rec.symbol_name_opt = b.rec.symbol_name_opt)
    ELSE IF ~IsSome(a.rec.symbol_name_opt) /\ ~IsSome(b.rec.symbol_name_opt)
    THEN (a.sym_id = b.sym_id)
           <=> /\ AfterLastBackslash(LowerBackslash(a.rec.dll_path))
                    = AfterLastBackslash(LowerBackslash(b.rec.dll_path))
               /\ a.rec.ordinal_opt = b.rec.ordinal_opt
    ELSE a.sym_id # b.sym_id

\* C26: a Named symbol is keyed by the name field exactly as the line has
\* it, so that records whose names differ in letter case or in surrounding
\* spaces resolve to distinct symbols; a DllOrdinal symbol is keyed by the
\* lower-cased last path segment, so that ordinal-only records whose paths
\* differ only in case resolve to the same symbol.
C26_RawNameNotNormalized ==
    [][ /\ (ProcessesLine /\ resolved'[Len(resolved')].panic = "") =>
              KeyedAsEncountered(resolved'[Len(resolved')], NextFields[3],
                                 Unwrap(txn').symbols)
        /\ \A i, j \in 1..Len(resolved') :
              (i < j /\ resolved'[i].panic = "" /\ resolved'[j].panic = "") =>
                  SameSymbolIffSameKey(resolved'[i], resolved'[j]) ]_vars

\* a committed run whose two records name A and a: two symbols
C26_Witness ==
    /\ pc = "done"
    /\ Len(resolved) = 2
    /\ resolved[1].rec.symbol_name_opt = Some(<<"A">>)
    /\ resolved[2].rec.symbol_name_opt = Some(<<"a">>)
    /\ resolved[1].sym_id # resolved[2].sym_id
    /\ \E y \in db.tables.symbols :
          y.sym_id = resolved[2].sym_id /\ y.raw_name = Some(<<"a">>)

\* ------------------------------------------------------------------ C27
EntityStmts == EntityInsertStmts \cup {QueryOf(x) : x \in EntityInsertStmts}

\* the statement s was executed by one of the records 1..n of the run
ExecutedBefore(n, s) ==
    \E i \in 1..n : \E l \in 1..Len(resolved[i].log) :
        resolved[i].log[l].stmt = s.stmt /\ resolved[i].log[l].key = s.key

\* the lookups and inserts of the statement log `log` are executed for the
\* first time in the run, and once
FirstRoundTrips(log) ==
    \A k \in 1..Len(log) :
        log[k].stmt \in EntityStmts =>
            /\ ~ExecutedBefore(Len(resolved), log[k])
            /\ \A l \in 1..Len(log) :
                  (log[l].stmt = log[k].stmt /\ log[l].key = log[k].key) => l = k

\* C27: within one run the store lookup of a natural key (operating system
\* short_name, DLL path, raw name, bare filename with ordinal) is executed at
\* most once and its insert at most once, however many records have the
\* key: a record executes a lookup or an insert only for a key that no
\* earlier record of the run looked up or inserted.
C27_NoRedundantRoundTrips ==
    [][ ProcessesLine => FirstRoundTrips(resolved'[Len(resolved')].log) ]_vars

\* a committed run whose first record created its operating system, DLL and
\* ordinal symbol and whose second record, with the same three keys,
\* executed the relationship insert only
C27_Witness ==
    /\ pc = "done"
    /\ Len(resolved) = 2
    /\ HasStmt(1, "insert_os") /\ HasStmt(1, "insert_dll")
    /\ HasStmt(1, "insert_dll_ordinal_symbol")
    /\ Len(resolved[2].log) = 1
    /\ resolved[2].log[1].stmt = "insert_relationship"

\* ------------------------------------------------------------------ C28
\* every entry of the cache c is a row of the tables t with that natural key
\* and that ID, of the variant of its cache
CacheCoherent(c, t) ==
    /\ \A k \in DOMAIN c.op_sys_to_id :
          \E r \in t.operating_systems :
              r.short_name = k /\ r.os_id = c.op_sys_to_id[k]
    /\ \A k \in DOMAIN c.dll_to_id :
          \E r \in t.dlls : r.path = k /\ r.dll_id = c.dll_to_id[k]
    /\ \A k \in DOMAIN c.symbol_name_to_id :
          \E y \in t.symbols :
              /\ y.sym_id = c.symbol_name_to_id[k]
              /\ y.raw_name = Some(k) /\ IsNamed(y)
    /\ \A n \in DOMAIN c.symbol_dll_to_ordinal_to_id :
          \A o \in DOMAIN c.symbol_dll_to_ordinal_to_id[n] :
              \E y \in t.symbols :
                  /\ y.sym_id = c.symbol_dll_to_ordinal_to_id[n][o]
                  /\ y.dll_name = Some(n) /\ y.ordinal = Some(o) /\ IsDllOrdinal(y)

\* C28: while a run's transaction is open, every entry key -> id of the four
\* caches is a row of the transaction's tables with that natural key and
\* that ID, a Named row for the named-symbol cache and a DllOrdinal row for
\* the ordinal-symbol cache; the caches are empty when a run starts reading.
C28_CacheCoherence ==
    /\ IsSome(txn) => CacheCoherent(cache, Unwrap(txn))
    /\ (pc = "gated" \/ (pc = "loop" /\ reader.pos = 0)) => cache = EmptyCache

\* the second run at the end of its input, with entries in all four caches
C28_Witness ==
    /\ pc = "eof" /\ run = 2
    /\ DOMAIN cache.op_sys_to_id # {} /\ DOMAIN cache.dll_to_id # {}
    /\ DOMAIN cache.symbol_name_to_id # {}
    /\ DOMAIN cache.symbol_dll_to_ordinal_to_id # {}

\* ------------------------------------------------------------------ C29
\* every relationship row of the tables t references rows of t
References(t) ==
    \A k \in 1..Len(t.symbol_dll_os) :
        /\ \E y \in t.symbols : y.sym_id = t.symbol_dll_os[k].sym_id
        /\ \E d \in t.dlls : d.dll_id = t.symbol_dll_os[k].dll_id
        /\ \E o \in t.operating_systems : o.os_id = t.symbol_dll_os[k].os_id

\* the relationship insert of the record resolved as e is its last
\* statement, issued on three resolved IDs
RelationshipLast(e) ==
    \A k \in 1..Len(e.log) :
        e.log[k].stmt = "insert_relationship" =>
            /\ k = Len(e.log)
            /\ e.sym_id # 0 /\ e.dll_id # 0 /\ e.os_id # 0
            /\ e.log[k].key = <<e.sym_id, e.dll_id, e.os_id, e.rec.ordinal_opt>>

\* the relationship row of the record resolved as e is in the tables t, for
\* the operating system and the DLL of the record's normalized path
RelatesOwnPath(e, t, path) ==
    /\ Len(e.log) > 0 /\ e.log[Len(e.log)].stmt = "insert_relationship"
    /\ \E k \in 1..Len(t.symbol_dll_os) :
          t.symbol_dll_os[k] = [sym_id |-> e.sym_id, dll_id |-> e.dll_id,
                                os_id |-> e.os_id, ordinal |-> e.rec.ordinal_opt]
    /\ \E o \in t.operating_systems :
          o.os_id = e.os_id /\ o.short_name = BeforeFirstBackslash(path)
    /\ \E d \in t.dlls : d.dll_id = e.dll_id /\ d.path = AfterFirstBackslash(path)

\* C29: in the committed store and in the tables of the open transaction,
\* every symbol_dll_os row references a sym_id, a dll_id and an os_id that
\* exist in symbols, dlls and operating_systems; a record's relationship
\* insert is its last statement, issued when its three IDs are resolved,
\* and its row relates the operating system and the DLL of the record's own
\* normalized path.
C29_ReferentialIntegrity ==
    /\ References(db.tables) /\ References(Tables)
    /\ \A i \in 1..Len(resolved) :
          /\ RelationshipLast(resolved[i])
          /\ Completed(i) =>
                RelatesOwnPath(resolved[i], Tables, LowerBackslash(resolved[i].rec.dll_path))

\* a committed run on a fresh store whose second record has a DLL ID that
\* differs from its operating system ID, and two relationship rows
C29_Witness ==
    /\ pc = "done"
    /\ ~db0.schema_version_exists /\ run = 1
    /\ Len(resolved) = 2
    /\ resolved[2].dll_id # resolved[2].os_id
    /\ Len(db.tables.symbol_dll_os) = 2

\* ------------------------------------------------------------------ C30
\* the notification 1000 is the last thing the step wrote to stderr
EmitsThousand ==
    /\ Len(stderr') = Len(stderr) + 1
    /\ stderr'[Len(stderr')] = [kind |-> "permille", val |-> 1000]

\* C30: the step that reads a line divides by the length of a file that is
\* not empty, and on an empty file the loop ends without a notification;
\* every emitted value lies in 1..1000; the step that reads the last line of
\* the file emits 1000, whether the line is a record, blank or malformed,
\* so before the commit.
C30_ProgressBounds ==
    [][ /\ ReadsLine =>
              /\ reader.file_length = Len(file) /\ Len(file) > 0
              /\ reader'.pos = Len(file) => EmitsThousand
        /\ (pc = "loop" /\ Len(file) = 0) => (pc' = "eof" /\ stderr' = stderr)
        /\ \A k \in 1..Len(Emitted(stderr')) : Emitted(stderr')[k] \in 1..1000
        /\ (pc = "eof" /\ pc' = "done" /\ Len(file) > 0) =>
              stderr[Len(stderr)] = [kind |-> "permille", val |-> 1000] ]_vars

\* a run that panicked on the malformed last line of its file, after the
\* notification 1000
C30_Witness ==
    /\ pc = "panicked"
    /\ panic \in MalformedRecordPanics
    /\ reader.pos = Len(file)
    /\ Len(resolved) >= 2
    /\ Len(stderr) > 0
    /\ stderr[Len(stderr)] = [kind |-> "permille", val |-> 1000]
====
